---- MODULE Spec2Model ----
(***************************************************************************)
(* Invoice billing-cycle engine of the PG management backend:              *)
(* monthly invoice generation (payment/signals.py, payment/tasks.py),      *)
(* the Invoice life cycle and payment reconciliation (payment/models.py).  *)
(* Dates are records [y, m, d]; money is counted in whole rupees.          *)
(***************************************************************************)
EXTENDS Integers, Sequences, FiniteSets, TLC

VARIABLES
    today,        \* timezone.localdate()
    bookings,     \* bookings.Booking rows, by id
    settingsRows, \* payment.InvoiceSettings rows of the owner, by scope
    invoices,     \* payment.Invoice rows (a set of records)
    expenses,     \* payment.InvoiceExpense rows
    payments,     \* payment.Payment rows, by id
    procs,        \* concurrent executions in flight (position and locals)
    lastOp,       \* history: the last operation and what it did
    subscriptions \* subscription.Subscription rows (a set of records)

vars == <<today, bookings, settingsRows, invoices, expenses, payments, procs, lastOp,
         subscriptions>>

-----------------------------------------------------------------------------
(* Bounds of the model *)

\* Months of the calendar the model covers, from January of BaseYear.
HorizonMonths == 2

\* Largest single payment amount and largest direct amount/delta argument.
MaxAmount == 3

\* Payment rows the model may create.
MaxPayments == 2

\* The year of the calendar.
BaseYear == 2025

\* Requests and task runs in flight at once.
MaxWorkers == 2

\* One booking: both triggers and the sweep treat bookings independently.
BookingIds == {1}
PaymentIds == 1..MaxPayments
Workers == 1..MaxWorkers

\* Days of a month that dates are sampled at.
SampleDays == {1, 15, 28, 31}

-----------------------------------------------------------------------------
(* Dates: datetime.date and the calendar module *)

Date(y, m, d) == [y |-> y, m |-> m, d |-> d]

\* None where a date is expected
NoDate == Date(0, 0, 0)

Max2(a, b) == IF a >= b THEN a ELSE b
Min2(a, b) == IF a <= b THEN a ELSE b

IsLeap(y) == (y % 4 = 0 /\ y % 100 # 0) \/ y % 400 = 0

\* calendar.monthrange(year, month)[1]
MonthRange(y, m) ==
    IF m = 2 THEN (IF IsLeap(y) THEN 29 ELSE 28)
    ELSE IF m \in {4, 6, 9, 11} THEN 30 ELSE 31

\* A total order key for dates (only compared, never shown)
Ord(d) == d.y * 372 + (d.m - 1) * 31 + (d.d - 1)
DateLt(a, b) == Ord(a) < Ord(b)
DateLe(a, b) == Ord(a) <= Ord(b)

\* The cycle month left on the day it was given
FirstDayOfMonthKeepsDay(d) == d

\* Invoice._first_day_of_month
FirstDayOfMonth(d) == IF d = NoDate THEN NoDate ELSE Date(d.y, d.m, 1)

\* _clamp_day that keeps the day whatever the month's length
ClampDayUnclamped(year, month, day) == Date(year, month, day)

\* Invoice._clamp_day
ClampDay(year, month, day) ==
    Date(year, month, Max2(1, Min2(day, MonthRange(year, month))))

\* Invoice._month_add
MonthAdd(d, months) ==
    LET m0 == d.m + months
        y  == d.y + ((m0 - 1) \div 12)
        m  == ((m0 - 1) % 12) + 1
    IN  ClampDay(y, m, d.d)

\* An anchor that keeps a check-in on the 1st on the 1st
CheckinAnchorKeepsFirst(booking) ==
    LET start == booking.start_date IN
    IF start = NoDate THEN NoDate
    ELSE LET last == MonthRange(start.y, start.m) IN
         IF start.d >= last
         THEN Date(start.y, start.m, last)
         ELSE Date(start.y, start.m, start.d)

\* Invoice._checkin_anchor_for_booking
CheckinAnchorForBooking(booking) ==
    LET start == booking.start_date IN
    IF start = NoDate THEN NoDate
    ELSE LET last == MonthRange(start.y, start.m) IN
         IF start.d = 1 \/ start.d >= last
         THEN Date(start.y, start.m, last)
         ELSE Date(start.y, start.m, start.d)

-----------------------------------------------------------------------------
(* InvoiceSettings *)

MkSettings(gt, p, go, mc, day) ==
    [generate_type |-> gt, period |-> p, generate_on |-> go,
     monthly_cycle |-> mc, monthly_custom_day |-> day]

\* The in-memory default both triggers build when the owner has no row
DefaultSettings == MkSettings("automatic", "monthly", "start", "checkin_date", 0)

\* "no row" for a scope
NoSettings == MkSettings("none", "none", "none", "none", 0)

\* InvoiceSettings._calc_monthly_custom_window
CalcMonthlyCustomWindow(s, ref) ==
    LET day   == IF s.monthly_custom_day = 0 THEN 1 ELSE s.monthly_custom_day
        start == ClampDay(ref.y, ref.m, day)
    IN  <<start, MonthAdd(start, 1)>>

\* monthly_period_window, the choice of start and end by monthly_cycle;
\* <<NoDate, NoDate>> where the code leaves both None
WindowStartEnd(s, ref, booking) ==
    IF s.monthly_cycle = "custom_day" /\ s.monthly_custom_day # 0
    THEN CalcMonthlyCustomWindow(s, ref)
    ELSE IF s.monthly_cycle = "checkin_date" /\ booking.start_date # NoDate
    THEN LET anchor == CheckinAnchorForBooking(booking) IN
         IF anchor # NoDate
         THEN LET aligned == ClampDay(ref.y, ref.m, anchor.d)
              IN  <<aligned, MonthAdd(aligned, 1)>>
         ELSE <<NoDate, NoDate>>
    ELSE LET first == Date(ref.y, ref.m, 1)
         IN  <<first, MonthAdd(first, 1)>>

\* monthly_period_window, the fallback to ref and the dict it returns
WindowDict(s, ref, se) ==
    LET start == IF se[1] = NoDate \/ se[2] = NoDate THEN ref ELSE se[1]
        end   == IF se[1] = NoDate \/ se[2] = NoDate THEN MonthAdd(ref, 1) ELSE se[2]
    IN  [start |-> start, end |-> end,
         generate_on |-> IF s.generate_on = "start" THEN start ELSE end]

\* InvoiceSettings.monthly_period_window
MonthlyPeriodWindow(s, reference_date, booking) ==
    WindowDict(s, reference_date, WindowStartEnd(s, reference_date, booking))

\* A resolution that asks for the owner-global row first
ResolveSettingsGlobalFirst(rows) ==
    IF rows["global"] # NoSettings THEN rows["global"]
    ELSE IF rows["building"] # NoSettings THEN rows["building"]
    ELSE DefaultSettings

\* Settings resolution of both triggers: building row, else owner-global row,
\* else the in-memory default
ResolveSettings(rows) ==
    IF rows["building"] # NoSettings THEN rows["building"]
    ELSE IF rows["global"] # NoSettings THEN rows["global"]
    ELSE DefaultSettings

-----------------------------------------------------------------------------
(* The calendar of the model and the inputs operations are called with *)

Calendar ==
    {Date(BaseYear, m, d) : m \in 1..HorizonMonths, d \in SampleDays} \ 
    {dt \in {Date(BaseYear, m, d) : m \in 1..HorizonMonths, d \in SampleDays} :
        dt.d > MonthRange(dt.y, dt.m)}

FirstDate == Date(BaseYear, 1, 1)

\* Booking.STATUS_CHOICES. reserved and converted are treated by the billing
\* code exactly as pending is; the inputs below use pending for all three.
BookingStatuses == {"pending", "confirmed", "canceled", "checked_out"}

\* The statuses bookings are saved with under Spec
SavedStatuses == {"pending", "confirmed", "canceled"}

\* Check-in dates bookings are created with
StartDates == {dt \in Calendar : dt.m <= 2 /\ dt.d \in {1, 15, 31} /\ (dt.m = 1 \/ dt.d = 15)}

\* Pricing snapshots a booking is created with
FullPricing ==
    [monthly_rent |-> 2, maintenance_amount |-> 1, discount_amount |-> 0, security_deposit |-> 3]

Pricings ==
    { FullPricing,
      [monthly_rent |-> 1, maintenance_amount |-> 0, discount_amount |-> 4, security_deposit |-> 2] }

\* The room's own prices, which Booking.save falls back to.
Room == [monthly_rent |-> 2, security_deposit |-> 0]

\* Settings rows an admin saves for the building, and for the owner globally
BuildingChoices ==
    { MkSettings("automatic", "monthly", "end", "checkin_date", 0),
      MkSettings("automatic", "monthly", "start", "custom_day", 31),
      MkSettings("manual", "monthly", "start", "checkin_date", 0),
      MkSettings("automatic", "weekly", "start", "checkin_date", 0) }

GlobalChoices ==
    { MkSettings("automatic", "monthly", "start", "calendar_month", 0) }

SettingsChoices(scope) == IF scope = "building" THEN BuildingChoices ELSE GlobalChoices

\* No Payment row under an id
NoPayment == [exists |-> FALSE, invoice |-> 0, amount |-> 0]

NoBooking ==
    [status |-> "none", start_date |-> NoDate, end_date |-> NoDate,
     monthly_rent |-> 0, maintenance_amount |-> 0, discount_amount |-> 0,
     security_deposit |-> 0, booked_at |-> FALSE]

-----------------------------------------------------------------------------
(* Invoice: validation and save *)

InvoiceStatuses == {"draft", "open", "partial", "paid", "overdue", "void"}

\* Invoice(...) as both triggers build it; origin is history, not a column.
MkInvoice(id, b, cycle_month, issue_date, due_date, amount, status, origin) ==
    [id |-> id, booking |-> b, cycle_month |-> cycle_month,
     issue_date |-> issue_date, due_date |-> due_date,
     amount |-> amount, tax_amount |-> 0, discount_amount |-> 0,
     total_amount |-> 0, balance_due |-> 0, status |-> status, origin |-> origin]

NextInvoiceId(invs) == Cardinality(invs) + 1

\* Invoice.objects.filter(booking=b, cycle_month=cm).exists()
InvoiceExists(invs, b, cm) ==
    \E o \in invs : o.booking = b /\ o.cycle_month = cm

\* Invoice._derive_cycle_anchor. start_date is a required column, so the
\* fallback to the local date of booked_at is never taken for a stored booking;
\* booked_at is kept as "is set".
DeriveCycleAnchor(b) == CheckinAnchorForBooking(b)

\* Invoice.clean: TRUE when no ValidationError is raised
InvoiceClean(inv, bks, invs, td) ==
    LET b == bks[inv.booking] IN
    /\ b.status = "confirmed" /\ b.booked_at
    /\ (inv.cycle_month # NoDate) =>
          LET anchor_date == DeriveCycleAnchor(b)
              upper_bound_date == IF b.end_date # NoDate THEN b.end_date ELSE td
          IN  /\ anchor_date # NoDate
              /\ ~DateLt(inv.cycle_month, FirstDayOfMonth(anchor_date))
              /\ ~DateLt(FirstDayOfMonth(upper_bound_date), inv.cycle_month)
              /\ ~(\E o \in invs : /\ o.booking = inv.booking
                                    /\ o.cycle_month = inv.cycle_month
                                    /\ o.id # inv.id)
    /\ (inv.due_date # NoDate /\ inv.issue_date # NoDate) =>
          ~DateLt(inv.due_date, inv.issue_date)
    /\ inv.amount + inv.tax_amount >= inv.discount_amount

\* recalc_totals that leaves the discount out of the total
RecalcTotalsNoDiscount(inv, adding) ==
    LET total == inv.amount + inv.tax_amount IN
    IF adding
    THEN [inv EXCEPT !.total_amount = total, !.balance_due = total]
    ELSE [inv EXCEPT !.total_amount = total]

\* Invoice.recalc_totals
RecalcTotals(inv, adding) ==
    LET total == (inv.amount + inv.tax_amount) - inv.discount_amount IN
    IF adding
    THEN [inv EXCEPT !.total_amount = total, !.balance_due = total]
    ELSE [inv EXCEPT !.total_amount = total]

\* A table without uniq_invoice_booking_cycle_month
UniqueViolationNever(invs, row) == FALSE

\* The constraints of Invoice.Meta, as the database enforces them on a write
UniqueViolation(invs, row) ==
    \E o \in invs : /\ o.id # row.id
                     /\ o.booking = row.booking
                     /\ o.cycle_month = row.cycle_month

CheckViolation(row) ==
    ~(/\ row.amount >= 0 /\ row.tax_amount >= 0 /\ row.discount_amount >= 0
      /\ row.total_amount >= 0 /\ row.balance_due >= 0)

\* Invoice.save up to and including full_clean: the row as it would be written,
\* and whether validation let it through
InvoicePrepare(inv, adding, bks, invs, td) ==
    LET b0     == bks[inv.booking]
        cm0    == IF inv.cycle_month = NoDate THEN DeriveCycleAnchor(b0) ELSE inv.cycle_month
        okBk   == cm0 # NoDate /\ b0.status = "confirmed" /\ b0.booked_at
        normal == [inv EXCEPT !.cycle_month = FirstDayOfMonth(cm0)]
        row    == RecalcTotals(normal, adding)
    IN  [ok  |-> okBk /\ InvoiceClean(row, bks, invs, td),
         row |-> row]

\* super().save() of a prepared row p, under the table's constraints. Gives
\* the new table, or the old one when validation or the write raised.
InvoiceWrite(p, invs) ==
    IF p.ok /\ ~UniqueViolation(invs, p.row) /\ ~CheckViolation(p.row)
    THEN [ok |-> TRUE, row |-> p.row,
          invoices |-> {o \in invs : o.id # p.row.id} \cup {p.row}]
    ELSE [ok |-> FALSE, row |-> p.row, invoices |-> invs]

\* Invoice.save: validation, then the write
InvoiceSave(inv, adding, bks, invs, td) ==
    InvoiceWrite(InvoicePrepare(inv, adding, bks, invs, td), invs)

-----------------------------------------------------------------------------
(* Invoice: balance application *)

\* apply_payment_amount without the floor at 0
ApplyPaymentAmountNoFloor(inv, pay_amount) ==
    IF pay_amount <= 0 THEN inv
    ELSE LET balance == inv.balance_due - pay_amount
         IN  [inv EXCEPT
                !.balance_due = balance,
                !.status = IF balance = 0 THEN "paid"
                           ELSE IF inv.status \in {"draft", "open"} THEN "partial"
                           ELSE inv.status]

\* apply_payment_amount that moves only open invoices to partial
ApplyPaymentAmountOpenOnly(inv, pay_amount) ==
    IF pay_amount <= 0 THEN inv
    ELSE LET balance == Max2(inv.balance_due - pay_amount, 0)
         IN  [inv EXCEPT
                !.balance_due = balance,
                !.status = IF balance = 0 THEN "paid"
                           ELSE IF inv.status \in {"open"} THEN "partial"
                           ELSE inv.status]

\* apply_payment_amount that moves every unpaid invoice to partial
ApplyPaymentAmountAlwaysPartial(inv, pay_amount) ==
    IF pay_amount <= 0 THEN inv
    ELSE LET balance == Max2(inv.balance_due - pay_amount, 0)
         IN  [inv EXCEPT
                !.balance_due = balance,
                !.status = IF balance = 0 THEN "paid" ELSE "partial"]

\* apply_payment_amount that marks the invoice paid on any payment
ApplyPaymentAmountMarksPaid(inv, pay_amount) ==
    IF pay_amount <= 0 THEN inv
    ELSE [inv EXCEPT !.balance_due = Max2(inv.balance_due - pay_amount, 0),
                     !.status = "paid"]

\* Invoice.apply_payment_amount, on the object in memory
ApplyPaymentAmount(inv, pay_amount) ==
    IF pay_amount <= 0 THEN inv
    ELSE LET new_balance == inv.balance_due - pay_amount
             balance     == Max2(new_balance, 0)
         IN  [inv EXCEPT
                !.balance_due = balance,
                !.status = IF balance = 0 THEN "paid"
                           ELSE IF inv.status \in {"draft", "open"} THEN "partial"
                           ELSE inv.status]

\* adjust_payment_delta that leaves a paid invoice paid when a balance returns
AdjustPaymentDeltaKeepsPaid(inv, delta) ==
    IF delta = 0 THEN inv
    ELSE LET balance == Max2(inv.balance_due - delta, 0)
         IN  [inv EXCEPT
                !.balance_due = balance,
                !.status = IF balance = 0 THEN "paid"
                           ELSE IF inv.status \in {"draft", "open"} THEN "partial"
                           ELSE inv.status]

\* Invoice.adjust_payment_delta, on the object in memory
AdjustPaymentDelta(inv, delta) ==
    IF delta = 0 THEN inv
    ELSE LET new_balance == inv.balance_due - delta
             balance     == Max2(new_balance, 0)
         IN  [inv EXCEPT
                !.balance_due = balance,
                !.status = IF balance = 0 THEN "paid"
                           ELSE IF inv.status \in {"draft", "open", "paid"} THEN "partial"
                           ELSE inv.status]

\* Invoice.open, on the object in memory
OpenInvoice(inv) ==
    IF inv.status = "draft" THEN [inv EXCEPT !.status = "open"] ELSE inv

\* The self.save(update_fields=[...]) that ends the three methods: it runs
\* only when the method did not return early, and writes nothing if it raises.
SaveIfTouched(touched, obj, bks, invs, td) ==
    IF touched THEN InvoiceSave(obj, FALSE, bks, invs, td)
    ELSE [ok |-> TRUE, row |-> obj, invoices |-> invs]

-----------------------------------------------------------------------------
(* Generation triggers *)

\* First invoice: rent + maintenance - discount + security deposit, floored at 0
FirstInvoiceBase(b) ==
    Max2(b.monthly_rent + b.maintenance_amount - b.discount_amount + b.security_deposit, 0)

\* The recurring amount with the deposit billed again
RecurringInvoiceBaseWithDeposit(b) ==
    Max2(b.monthly_rent + b.maintenance_amount - b.discount_amount + b.security_deposit, 0)

\* Recurring invoice: rent + maintenance - discount, floored at 0
RecurringInvoiceBase(b) ==
    Max2(b.monthly_rent + b.maintenance_amount - b.discount_amount, 0)

\* The descriptive InvoiceExpense rows of the first invoice
FirstInvoiceLineItems(invId, b) ==
    {[invoice |-> invId, label |-> "Security Deposit", amount |-> b.security_deposit] :
        x \in IF b.security_deposit > 0 THEN {1} ELSE {}}
    \cup
    {[invoice |-> invId, label |-> "Maintenance (INR)", amount |-> b.maintenance_amount] :
        x \in IF b.maintenance_amount > 0 THEN {1} ELSE {}}
    \cup
    {[invoice |-> invId, label |-> "Discount (INR)", amount |-> b.discount_amount] :
        x \in IF b.discount_amount > 0 THEN {1} ELSE {}}

\* create_first_invoice_on_confirm, the conditions under which it returns
\* before building an invoice. old_status "none" is the None that
\* _booking_pre_save records for a booking without a pk. Every building has an
\* owner (a required column), so the owner is always resolved.
FirstInvoiceSkip(id, created, old_status, bks, rows, invs, td) ==
    LET instance    == bks[id]
        settings    == ResolveSettings(rows)
        window      == MonthlyPeriodWindow(settings, instance.start_date, instance)
        gen_on      == IF settings.generate_on = "start" THEN window.start ELSE window.end
    IN  \/ instance.status # "confirmed"
        \/ (~created /\ ~(old_status # "none" /\ old_status # instance.status))
        \/ instance.start_date = NoDate
        \/ settings.generate_type # "automatic"
        \/ settings.period # "monthly"
        \/ (settings.generate_on = "end" /\ td # gen_on)
        \/ InvoiceExists(invs, id, FirstDayOfMonth(window.start))

\* The Invoice(...) the receiver builds
FirstInvoice(id, bks, rows, invs, td) ==
    LET instance == bks[id]
        window   == MonthlyPeriodWindow(ResolveSettings(rows), instance.start_date, instance)
    IN  MkInvoice(NextInvoiceId(invs), id, FirstDayOfMonth(window.start), td, window.end,
                  FirstInvoiceBase(instance), "open", "confirm")

\* An atomic block that keeps the line items when inv.save() raised
FirstInvoiceStoredKeepsLineItems(res, instance, invs, exps) ==
    IF ~res.ok
    THEN [invoices |-> invs,
          expenses |-> exps \cup FirstInvoiceLineItems(res.row.id, instance),
          created  |-> {}]
    ELSE [invoices |-> res.invoices,
          expenses |-> exps \cup FirstInvoiceLineItems(res.row.id, instance),
          created  |-> {res.row}]

\* The receiver's atomic block after inv.save() gave res: the line items of a
\* stored invoice, or nothing at all when the save raised
FirstInvoiceStored(res, instance, invs, exps) ==
    IF ~res.ok
    THEN [invoices |-> invs, expenses |-> exps, created |-> {}]
    ELSE [invoices |-> res.invoices,
          expenses |-> exps \cup FirstInvoiceLineItems(res.row.id, instance),
          created  |-> {res.row}]

\* create_first_invoice_on_confirm (post_save receiver), run without
\* interruption; every exception is caught and logged
CreateFirstInvoiceOnConfirm(id, created, old_status, bks, rows, invs, exps, td) ==
    IF FirstInvoiceSkip(id, created, old_status, bks, rows, invs, td)
    THEN [invoices |-> invs, expenses |-> exps, created |-> {}]
    ELSE FirstInvoiceStored(InvoiceSave(FirstInvoice(id, bks, rows, invs, td), TRUE,
                                        bks, invs, td),
                            bks[id], invs, exps)

\* void_invoices_on_booking_cancel (post_save receiver). Its UPDATE sets
\* notes = F('notes') + "<text>", the SQL operator + on a text column: SQLite
\* adds the two as numbers and the statement runs; PostgreSQL has no text +
\* text operator and MySQL in strict mode refuses the conversion, the statement
\* raises, and the receiver's except logs it. update_ok is which of the two the
\* database does.
VoidInvoicesOnBookingCancel(id, created, old_status, bks, invs, td, update_ok) ==
    LET instance == bks[id]
        fires == /\ instance.status = "canceled"
                 /\ ~(created \/ ~(old_status # "none" /\ old_status # instance.status))
        hit(o) == /\ o.booking = id
                  /\ o.status \in {"draft", "open"}
                  /\ ~DateLt(o.cycle_month, FirstDayOfMonth(td))
    IN  IF fires /\ update_ok
        THEN {IF hit(o) THEN [o EXCEPT !.status = "void"] ELSE o : o \in invs}
        ELSE invs

\* The bookings the sweep visits: confirmed and overlapping today
SweepActive(b, td) ==
    /\ b.status = "confirmed"
    /\ (b.start_date = NoDate \/ DateLe(b.start_date, td))
    /\ (b.end_date = NoDate \/ DateLe(td, b.end_date))

\* The loop body without the generate_on guard
SweepEligibleAnyDay(id, bks, rows, invs, td) ==
    LET b        == bks[id]
        settings == ResolveSettings(rows)
        window   == MonthlyPeriodWindow(settings, td, b)
    IN  /\ SweepActive(b, td)
        /\ b.booked_at
        /\ settings.generate_type = "automatic"
        /\ settings.period = "monthly"
        /\ ~InvoiceExists(invs, id, FirstDayOfMonth(window.start))

\* The body of the sweep's loop for one booking, up to the decision to create
SweepEligible(id, bks, rows, invs, td) ==
    LET b        == bks[id]
        settings == ResolveSettings(rows)
        window   == MonthlyPeriodWindow(settings, td, b)
    IN  /\ SweepActive(b, td)
        /\ b.booked_at
        /\ settings.generate_type = "automatic"
        /\ settings.period = "monthly"
        /\ window.generate_on = td
        /\ ~InvoiceExists(invs, id, FirstDayOfMonth(window.start))

SweepInvoice(id, bks, rows, invs, td) ==
    LET b      == bks[id]
        window == MonthlyPeriodWindow(ResolveSettings(rows), td, b)
    IN  MkInvoice(NextInvoiceId(invs), id, FirstDayOfMonth(window.start), td, window.end,
                  RecurringInvoiceBase(b), "open", "sweep")

\* generate_monthly_invoices over the bookings in queryset order. An exception
\* of Invoice.save is not caught: it ends the run (raised), keeping what earlier
\* iterations committed.
RECURSIVE SweepLoop(_, _, _, _, _, _)
RECURSIVE SweepCreate(_, _, _, _, _, _, _)
SweepLoop(order, bks, rows, invs, td, acc) ==
    IF order = <<>> THEN [invoices |-> invs, created |-> acc, raised |-> FALSE]
    ELSE IF ~SweepEligible(Head(order), bks, rows, invs, td)
    THEN SweepLoop(Tail(order), bks, rows, invs, td, acc)
    ELSE SweepCreate(InvoiceSave(SweepInvoice(Head(order), bks, rows, invs, td), TRUE,
                                 bks, invs, td),
                     order, bks, rows, invs, td, acc)

\* The loop after inv.save() gave res for the booking at the head of order
SweepCreate(res, order, bks, rows, invs, td, acc) ==
    IF res.ok
    THEN SweepLoop(Tail(order), bks, rows, res.invoices, td, acc \cup {res.row})
    ELSE [invoices |-> invs, created |-> acc, raised |-> TRUE]

\* Booking.Meta.ordering = ["-created_at"]: newest first
RECURSIVE DescendingIds(_)
DescendingIds(ids) ==
    IF ids = {} THEN <<>>
    ELSE LET top == CHOOSE i \in ids : \A j \in ids : j <= i
         IN  <<top>> \o DescendingIds(ids \ {top})

-----------------------------------------------------------------------------
(* Booking.save and its post_save receivers *)

\* Booking.clean, the rules that read the booking itself. The bed, room and
\* stay consistency rules concern the property hierarchy and always pass here:
\* every booking has a bed of its own.
BookingClean(new, old) ==
    /\ ~(new.start_date # NoDate /\ new.end_date # NoDate
          /\ DateLt(new.end_date, new.start_date))
    /\ (new.status = "checked_out") => old.status = "confirmed"

\* Booking.save before validation: pricing defaults from the room, end_date
\* defaulted to today on check-out
BookingNormalise(b, td) ==
    [b EXCEPT
       !.monthly_rent = IF b.monthly_rent <= 0 THEN Room.monthly_rent ELSE b.monthly_rent,
       !.security_deposit = IF b.security_deposit <= 0 THEN Room.security_deposit
                            ELSE b.security_deposit,
       !.end_date = IF b.status = "checked_out" /\ b.end_date = NoDate THEN td
                    ELSE b.end_date]

NoOp == [op |-> "none", booking |-> 0, confirm |-> FALSE, again |-> FALSE,
         created |-> {}, ret |-> 0]

\* The post_save receivers of payment.signals, in the order they are connected:
\* first is what create_first_invoice_on_confirm left
PostSave(id, old_status, bks, first) ==
    /\ bookings' = bks
    /\ \E update_ok \in BOOLEAN :
          invoices' = VoidInvoicesOnBookingCancel(id, old_status = "none", old_status, bks,
                                                  first.invoices, today, update_ok)
    /\ expenses' = first.expenses
    /\ lastOp' = [op |-> "booking_save", booking |-> id,
                  confirm |-> (bks[id].status = "confirmed" /\ old_status # "confirmed"),
                  again |-> FALSE, created |-> first.created, ret |-> 0,
                  row |-> bks[id]]
    /\ UNCHANGED <<today, settingsRows, payments, procs, subscriptions>>

\* Booking.save of the normalised row new over the stored row old
BookingWrite(id, new, old, bks) ==
    /\ BookingClean(new, old)
    /\ PostSave(id, old.status, bks,
                CreateFirstInvoiceOnConfirm(id, old.status = "none", old.status, bks,
                                            settingsRows, invoices, expenses, today))

\* Booking.save(new0) with both payment receivers
BookingSave(id, new0) ==
    BookingWrite(id, BookingNormalise(new0, today), bookings[id],
                 [bookings EXCEPT ![id] = BookingNormalise(new0, today)])

\* The end dates a booking is created with: open-ended, or a stay of one month
EndDatesFor(sd) == {NoDate, MonthAdd(sd, 1)}

\* POST /bookings: a new booking
CreateBooking(id, st, sd, ed, pr) ==
    /\ bookings[id].status = "none"
    /\ BookingSave(id, [status |-> st, start_date |-> sd, end_date |-> ed,
                        monthly_rent |-> pr.monthly_rent,
                        maintenance_amount |-> pr.maintenance_amount,
                        discount_amount |-> pr.discount_amount,
                        security_deposit |-> pr.security_deposit,
                        booked_at |-> TRUE])

\* PATCH /bookings/<id>: a status change (or a re-save with the same status)
ChangeBookingStatus(id, st) ==
    /\ bookings[id].status # "none"
    /\ BookingSave(id, [bookings[id] EXCEPT !.status = st])

\* generate_monthly_invoices (celery beat)
GenerateMonthlyInvoices ==
    LET active == {id \in BookingIds : bookings[id].status # "none"}
        run    == SweepLoop(DescendingIds(active), bookings, settingsRows, invoices,
                            today, {})
    IN  /\ invoices' = run.invoices
        /\ lastOp' = [op |-> "sweep", booking |-> 0, confirm |-> FALSE,
                      again |-> (lastOp.op = "sweep"), created |-> run.created,
                      ret |-> IF run.raised THEN -1 ELSE Cardinality(run.created)]
        /\ UNCHANGED <<today, bookings, settingsRows, expenses, payments, procs, subscriptions>>

\* An admin creates, changes or deletes a settings row
SaveSettings(scope, s) ==
    /\ settingsRows[scope] # s
    /\ settingsRows' = [settingsRows EXCEPT ![scope] = s]
    /\ lastOp' = NoOp
    /\ UNCHANGED <<today, bookings, invoices, expenses, payments, procs, subscriptions>>

\* Time passes
Tick(d) ==
    /\ DateLt(today, d)
    /\ today' = d
    /\ lastOp' = NoOp
    /\ UNCHANGED <<bookings, settingsRows, invoices, expenses, payments, procs, subscriptions>>

-----------------------------------------------------------------------------
(* Spec: bookings, settings and the generation triggers over the calendar *)

Init ==
    /\ today = FirstDate
    /\ bookings = [id \in BookingIds |-> NoBooking]
    /\ settingsRows = [scope \in {"building", "global"} |-> NoSettings]
    /\ invoices = {}
    /\ expenses = {}
    /\ payments = [p \in PaymentIds |-> NoPayment]
    /\ procs = <<>>
    /\ subscriptions = {}
    /\ lastOp = NoOp

Next ==
    \/ \E id \in BookingIds, st \in SavedStatuses, sd \in StartDates, pr \in Pricings :
          \E ed \in EndDatesFor(sd) : CreateBooking(id, st, sd, ed, pr)
    \/ \E id \in BookingIds, st \in SavedStatuses : ChangeBookingStatus(id, st)
    \/ GenerateMonthlyInvoices
    \/ \E scope \in {"building", "global"} :
          \E s \in SettingsChoices(scope) \cup {NoSettings} : SaveSettings(scope, s)
    \/ \E d \in Calendar : Tick(d)

Spec == Init /\ [][Next]_vars

-----------------------------------------------------------------------------
(* Payment.save and Payment deletion *)

InvoiceById(invs, i) == CHOOSE o \in invs : o.id = i

\* a mutant of Payment.save: the row write is not undone when an invoice update
\* raises (no transaction around them)
PaymentSaveNoRollback(p, new_invoice, new_amount, pays, invs, bks, td) ==
    LET prev           == pays[p]
        is_create      == ~prev.exists
        old_amount     == prev.amount
        old_invoice_id == prev.invoice
        written        == [pays EXCEPT ![p] = [exists |-> TRUE, invoice |-> new_invoice,
                                               amount |-> new_amount]]
        failed         == [ok |-> FALSE, payments |-> written, invoices |-> invs]
        done(r)        == IF r.ok THEN [ok |-> TRUE, payments |-> written,
                                        invoices |-> r.invoices]
                          ELSE failed
        inv            == InvoiceById(invs, new_invoice)
    IN  IF new_amount <= 0 THEN failed            \* payment_amount_positive
        ELSE IF new_invoice = 0 THEN [ok |-> TRUE, payments |-> written, invoices |-> invs]
        ELSE IF is_create
        THEN done(SaveIfTouched(TRUE, ApplyPaymentAmount(inv, new_amount), bks, invs, td))
        ELSE IF old_invoice_id = new_invoice
        THEN LET delta == new_amount - old_amount IN
             done(SaveIfTouched(delta # 0, AdjustPaymentDelta(inv, delta), bks, invs, td))
        ELSE LET r1 == IF old_invoice_id # 0
                       THEN SaveIfTouched(old_amount # 0,
                                AdjustPaymentDelta(InvoiceById(invs, old_invoice_id),
                                                   0 - old_amount),
                                bks, invs, td)
                       ELSE [ok |-> TRUE, row |-> inv, invoices |-> invs]
             IN  IF ~r1.ok THEN failed
                 ELSE done(SaveIfTouched(TRUE, AdjustPaymentDelta(inv, new_amount),
                                         bks, r1.invoices, td))

\* Payment.save(p) with the new link (0 for no invoice) and amount, run alone:
\* the row write and the invoice updates are one transaction, so a raise in
\* any of them leaves payments and invoices as they were.
PaymentSave(p, new_invoice, new_amount, pays, invs, bks, td) ==
    LET prev           == pays[p]
        is_create      == ~prev.exists
        old_amount     == prev.amount
        old_invoice_id == prev.invoice
        written        == [pays EXCEPT ![p] = [exists |-> TRUE, invoice |-> new_invoice,
                                               amount |-> new_amount]]
        failed         == [ok |-> FALSE, payments |-> pays, invoices |-> invs]
        done(r)        == IF r.ok THEN [ok |-> TRUE, payments |-> written,
                                        invoices |-> r.invoices]
                          ELSE failed
        inv            == InvoiceById(invs, new_invoice)
    IN  IF new_amount <= 0 THEN failed            \* payment_amount_positive
        ELSE IF new_invoice = 0 THEN [ok |-> TRUE, payments |-> written, invoices |-> invs]
        ELSE IF is_create
        THEN done(SaveIfTouched(TRUE, ApplyPaymentAmount(inv, new_amount), bks, invs, td))
        ELSE IF old_invoice_id = new_invoice
        THEN LET delta == new_amount - old_amount IN
             done(SaveIfTouched(delta # 0, AdjustPaymentDelta(inv, delta), bks, invs, td))
        ELSE LET r1 == IF old_invoice_id # 0
                       THEN SaveIfTouched(old_amount # 0,
                                AdjustPaymentDelta(InvoiceById(invs, old_invoice_id),
                                                   0 - old_amount),
                                bks, invs, td)
                       ELSE [ok |-> TRUE, row |-> inv, invoices |-> invs]
             IN  IF ~r1.ok THEN failed
                 ELSE done(SaveIfTouched(TRUE, AdjustPaymentDelta(inv, new_amount),
                                         bks, r1.invoices, td))

\* POST /payments and PUT/PATCH /payments/<id> (serializer.save -> Payment.save)
SavePayment(p, new_invoice, new_amount) ==
    LET r == PaymentSave(p, new_invoice, new_amount, payments, invoices, bookings, today) IN
    /\ new_invoice = 0 \/ \E o \in invoices : o.id = new_invoice
    /\ payments' = r.payments
    /\ invoices' = r.invoices
    /\ lastOp' = [op |-> "payment_save", ok |-> r.ok]
    /\ UNCHANGED <<today, bookings, settingsRows, expenses, procs, subscriptions>>

\* DELETE /payments/<id>: ModelViewSet.destroy -> Model.delete; Payment has no
\* delete override and no delete receiver
DeletePayment(p) ==
    /\ payments[p].exists
    /\ payments' = [payments EXCEPT ![p] = NoPayment]
    /\ lastOp' = [op |-> "payment_delete", ok |-> TRUE]
    /\ UNCHANGED <<today, bookings, settingsRows, invoices, expenses, procs, subscriptions>>

-----------------------------------------------------------------------------
(* Direct calls of the Invoice methods the billing layer is given *)

\* Largest balance the direct calls may raise an invoice to.
MaxBalance == 7

\* History of a direct call: its argument, the status and balance before it,
\* the balance and status of the object after it, and whether its save passed
CallRecord(op, arg, inv, obj, saved) ==
    [op |-> op, arg |-> arg, id |-> inv.id, prior |-> inv.status,
     was |-> inv.balance_due, balance |-> obj.balance_due, status |-> obj.status,
     saved |-> saved]

CallApplyPaymentAmount(i, amount) ==
    \E inv \in invoices :
        LET obj == ApplyPaymentAmount(inv, amount)
            r   == SaveIfTouched(amount > 0, obj, bookings, invoices, today)
        IN  /\ inv.id = i
            /\ invoices' = r.invoices
            /\ lastOp' = CallRecord("apply", amount, inv, obj, r.ok)
            /\ UNCHANGED <<today, bookings, settingsRows, expenses, payments, procs, subscriptions>>

CallAdjustPaymentDelta(i, delta) ==
    \E inv \in invoices :
        LET obj == AdjustPaymentDelta(inv, delta)
            r   == SaveIfTouched(delta # 0, obj, bookings, invoices, today)
        IN  /\ inv.id = i
            /\ obj.balance_due <= MaxBalance
            /\ invoices' = r.invoices
            /\ lastOp' = CallRecord("adjust", delta, inv, obj, r.ok)
            /\ UNCHANGED <<today, bookings, settingsRows, expenses, payments, procs, subscriptions>>

\* POST /invoices/<id>/open
CallOpen(i) ==
    \E inv \in invoices :
        LET obj == OpenInvoice(inv)
            r   == SaveIfTouched(inv.status = "draft", obj, bookings, invoices, today)
        IN  /\ inv.id = i
            /\ invoices' = r.invoices
            /\ lastOp' = CallRecord("open", 0, inv, obj, r.ok)
            /\ UNCHANGED <<today, bookings, settingsRows, expenses, payments, procs, subscriptions>>

-----------------------------------------------------------------------------
(* The state the payment specifications start in: a booking confirmed on its  *)
(* check-in day, its first invoice from the confirmation trigger, and a second *)
(* invoice a month later, from the sweep or entered by hand as a draft.        *)

CheckinDay == Date(BaseYear, 1, 15)
PayDay == Date(BaseYear, 2, 15)

BaseBookings(pr) ==
    [id \in BookingIds |->
        BookingNormalise([status |-> "confirmed", start_date |-> CheckinDay,
                          end_date |-> NoDate,
                          monthly_rent |-> pr.monthly_rent,
                          maintenance_amount |-> pr.maintenance_amount,
                          discount_amount |-> pr.discount_amount,
                          security_deposit |-> pr.security_deposit,
                          booked_at |-> TRUE], CheckinDay)]

NoRows == [scope \in {"building", "global"} |-> NoSettings]

AfterConfirm(pr) ==
    CreateFirstInvoiceOnConfirm(1, TRUE, "none", BaseBookings(pr), NoRows, {}, {}, CheckinDay)

\* POST /invoices: the serializer leaves status at its default, draft
ApiInvoice(id, b, cycle_month, issue_date, due_date, amount) ==
    MkInvoice(id, b, cycle_month, issue_date, due_date, amount, "draft", "api")

SecondInvoice(pr, how) ==
    LET first == AfterConfirm(pr).invoices IN
    IF how = "sweep"
    THEN SweepLoop(<<1>>, BaseBookings(pr), NoRows, first, PayDay, {}).invoices
    ELSE InvoiceSave(ApiInvoice(NextInvoiceId(first), 1, PayDay, PayDay,
                                MonthAdd(PayDay, 1), RecurringInvoiceBase(BaseBookings(pr)[1])),
                     TRUE, BaseBookings(pr), first, PayDay).invoices

PayInit ==
    /\ today = PayDay
    /\ \E pr \in Pricings, how \in {"sweep", "api"} :
          /\ bookings = BaseBookings(pr)
          /\ invoices = SecondInvoice(pr, how)
          /\ expenses = AfterConfirm(pr).expenses
    /\ settingsRows = NoRows
    /\ payments = [p \in PaymentIds |-> NoPayment]
    /\ procs = <<>>
    /\ subscriptions = {}
    /\ lastOp = NoOp

InvoiceIds == {o.id : o \in invoices}

\* SpecInv: the Invoice methods called directly, with any argument
NextInv ==
    \/ \E i \in InvoiceIds, a \in (0 - MaxAmount)..MaxAmount : CallApplyPaymentAmount(i, a)
    \/ \E i \in InvoiceIds, d \in (0 - MaxAmount)..MaxAmount : CallAdjustPaymentDelta(i, d)
    \/ \E i \in InvoiceIds : CallOpen(i)
    \/ \E id \in BookingIds, st \in SavedStatuses : ChangeBookingStatus(id, st)

SpecInv == PayInit /\ [][NextInv]_vars

\* SpecPay: payments created, edited, moved and deleted through the API
NextPay ==
    \/ \E p \in PaymentIds, i \in InvoiceIds \cup {0}, a \in 1..MaxAmount :
          SavePayment(p, i, a)
    \/ \E p \in PaymentIds : DeletePayment(p)
    \/ \E id \in BookingIds, st \in SavedStatuses : ChangeBookingStatus(id, st)

SpecPay == PayInit /\ [][NextPay]_vars

-----------------------------------------------------------------------------
(* mark_overdue_invoices and SpecLife: two bookings and their invoices as    *)
(* payments arrive, bookings change status, time passes and the overdue task *)
(* runs.                                                                     *)

\* due_date__lt=today, with status open or partial (mutant of the filter first)
OverdueFilterInclusive(o, td) ==
    o.status \in {"open", "partial"} /\ DateLe(o.due_date, td)

OverdueFilter(o, td) ==
    o.status \in {"open", "partial"} /\ DateLt(o.due_date, td)

\* mark_overdue_invoices (celery beat): one UPDATE, no Invoice.save
MarkOverdueInvoices ==
    /\ invoices' = {IF OverdueFilter(o, today) THEN [o EXCEPT !.status = "overdue"] ELSE o :
                        o \in invoices}
    /\ lastOp' = [op |-> "overdue", booking |-> 0, confirm |-> FALSE,
                  again |-> (lastOp.op = "overdue"), created |-> {},
                  ret |-> Cardinality({o \in invoices : OverdueFilter(o, today)})]
    /\ UNCHANGED <<today, bookings, settingsRows, expenses, payments, procs, subscriptions>>

\* Booking 1 as in PayInit; booking 2 checks in and is confirmed on PayDay
LifeInit ==
    /\ today = PayDay
    /\ bookings = [id \in {1, 2} |->
                      IF id = 1 THEN BaseBookings(FullPricing)[1]
                      ELSE [BaseBookings(FullPricing)[1] EXCEPT !.start_date = PayDay]]
    /\ \E how \in {"sweep", "api"} :
          \E r \in {CreateFirstInvoiceOnConfirm(2, TRUE, "none", bookings, NoRows,
                                                SecondInvoice(FullPricing, how),
                                                AfterConfirm(FullPricing).expenses, PayDay)} :
             /\ invoices = r.invoices
             /\ expenses = r.expenses
    /\ settingsRows = NoRows
    /\ payments = [p \in PaymentIds |-> NoPayment]
    /\ procs = <<>>
    /\ subscriptions = {}
    /\ lastOp = NoOp

NextLife ==
    \/ \E id \in DOMAIN bookings, st \in SavedStatuses : ChangeBookingStatus(id, st)
    \/ \E i \in InvoiceIds : CallApplyPaymentAmount(i, MaxAmount)
    \/ MarkOverdueInvoices
    \/ \E d \in Calendar : Tick(d)

SpecLife == LifeInit /\ [][NextLife]_vars

\* SpecDue: the direct calls of SpecInv two weeks later, when the first
\* invoice is past its due date and the overdue task runs
DueInit ==
    /\ today = Date(BaseYear, 2, 28)
    /\ \E pr \in Pricings, how \in {"sweep", "api"} :
          /\ bookings = BaseBookings(pr)
          /\ invoices = SecondInvoice(pr, how)
          /\ expenses = AfterConfirm(pr).expenses
    /\ settingsRows = NoRows
    /\ payments = [p \in PaymentIds |-> NoPayment]
    /\ procs = <<>>
    /\ subscriptions = {}
    /\ lastOp = NoOp

NextDue ==
    \/ NextInv
    \/ MarkOverdueInvoices

SpecDue == DueInit /\ [][NextDue]_vars

-----------------------------------------------------------------------------
(* SpecSave: Invoice.save reached through the invoice API, with any field     *)
(* values the serializer lets through                                         *)

\* POST /invoices: issue_date is left at its default, today
CreateInvoice(b, cm, due, amount, tax, discount) ==
    LET x == [ApiInvoice(NextInvoiceId(invoices), b, cm, today, due, amount)
                 EXCEPT !.tax_amount = tax, !.discount_amount = discount]
        r == InvoiceSave(x, TRUE, bookings, invoices, today)
    IN  /\ invoices' = r.invoices
        /\ lastOp' = [op |-> "invoice_save", arg |-> x, adding |-> TRUE, saved |-> r.ok]
        /\ UNCHANGED <<today, bookings, settingsRows, expenses, payments, procs, subscriptions>>

\* PATCH /invoices/<id> with new amounts
UpdateInvoice(i, amount, discount) ==
    \E inv \in invoices :
        LET x == [inv EXCEPT !.amount = amount, !.discount_amount = discount]
            r == InvoiceSave(x, FALSE, bookings, invoices, today)
        IN  /\ inv.id = i
            /\ invoices' = r.invoices
            /\ lastOp' = [op |-> "invoice_save", arg |-> x, adding |-> FALSE, saved |-> r.ok]
            /\ UNCHANGED <<today, bookings, settingsRows, expenses, payments, procs, subscriptions>>

\* A booking checked in and confirmed on PayDay, open-ended or ended within
\* its first month, with its first invoice; a month later
SaveInit ==
    /\ today = MonthAdd(PayDay, 1)
    /\ \E ed \in {NoDate, Date(BaseYear, 2, 28)} :
          /\ bookings = [id \in BookingIds |->
                            [BaseBookings(FullPricing)[id] EXCEPT !.start_date = PayDay,
                                                                  !.end_date = ed]]
          /\ \E r \in {CreateFirstInvoiceOnConfirm(1, TRUE, "none", bookings, NoRows,
                                                    {}, {}, PayDay)} :
                /\ invoices = r.invoices
                /\ expenses = r.expenses
    /\ settingsRows = NoRows
    /\ payments = [p \in PaymentIds |-> NoPayment]
    /\ procs = <<>>
    /\ subscriptions = {}
    /\ lastOp = NoOp

\* The cycle dates entered: the month before the stay, its two months (the
\* second by a day within it) and the month after today
NextSave ==
    \/ \E b \in BookingIds, due \in {PayDay, today},
          cm \in {Date(BaseYear, 1, 1), Date(BaseYear, 2, 1), Date(BaseYear, 3, 15),
                  Date(BaseYear, 4, 1)},
          amount \in {-1, 0, 2}, tax \in {0, 1}, discount \in {-1, 0, 3} :
          CreateInvoice(b, cm, due, amount, tax, discount)
    \/ \E i \in InvoiceIds, amount \in {-1, 0, 2}, discount \in {-1, 0, 3} :
          UpdateInvoice(i, amount, discount)
    \/ \E id \in BookingIds, st \in {"pending", "confirmed"} : ChangeBookingStatus(id, st)

SpecSave == SaveInit /\ [][NextSave]_vars

-----------------------------------------------------------------------------
(* SpecWin: monthly_period_window as a function of the settings, the         *)
(* reference date and the booking's check-in date                            *)

\* Reference and check-in dates: a leap year and the year after it, months of
\* 28/29, 30 and 31 days, December for the turn of the year
WindowDates ==
    {dt \in {Date(y, m, d) : y \in {2024, 2025}, m \in {1, 2, 3, 4, 12},
                             d \in {1, 15, 28, 29, 30, 31}} :
        dt.d <= MonthRange(dt.y, dt.m)}

\* One settings row, custom-day with any day 1..31 or check-in anchored, and
\* one confirmed booking
WinInit ==
    /\ today = FirstDate
    /\ \E go \in {"start", "end"} :
          \/ /\ \E day \in 1..31 :
                   settingsRows = [NoRows EXCEPT !["building"] =
                                      MkSettings("automatic", "monthly", go, "custom_day", day)]
             /\ bookings = BaseBookings(FullPricing)
          \/ /\ settingsRows = [NoRows EXCEPT !["global"] =
                                    MkSettings("automatic", "monthly", go, "checkin_date", 0)]
             /\ \E sd \in WindowDates :
                   bookings = [id \in BookingIds |->
                                  [BaseBookings(FullPricing)[id] EXCEPT !.start_date = sd]]
    /\ invoices = {}
    /\ expenses = {}
    /\ payments = [p \in PaymentIds |-> NoPayment]
    /\ procs = <<>>
    /\ subscriptions = {}
    /\ lastOp = NoOp

\* settings.monthly_period_window(reference_date=ref, booking=booking)
ComputeWindow(id, ref) ==
    /\ lastOp' = [op |-> "window", ref |-> ref, booking |-> id,
                  settings |-> ResolveSettings(settingsRows),
                  anchor |-> CheckinAnchorForBooking(bookings[id]),
                  window |-> MonthlyPeriodWindow(ResolveSettings(settingsRows), ref,
                                                 bookings[id])]
    /\ UNCHANGED <<today, bookings, settingsRows, invoices, expenses, payments, procs, subscriptions>>

NextWin == \E id \in BookingIds, ref \in WindowDates : ComputeWindow(id, ref)

SpecWin == WinInit /\ [][NextWin]_vars

-----------------------------------------------------------------------------
(* SpecRace: a confirmation and the sweep, or two of either, in flight at once *)
(* for one booking. Each worker's reads and writes are separate steps; an      *)
(* INSERT and the commit of its atomic block are one step, the database        *)
(* serialising writers of one unique-index key.                                *)

IdleRacer == [kind |-> "none", pc |-> "idle", old_status |-> "none",
              row |-> MkInvoice(0, 0, NoDate, NoDate, NoDate, 0, "open", "none"),
              outcome |-> "none"]

Finish(w, outcome) == [procs EXCEPT ![w].pc = "done", ![w].outcome = outcome]

\* _booking_pre_save of a request that sets status = confirmed: the stored
\* status is read
ConfirmPreSave(w, id) ==
    /\ procs[w].pc = "idle"
    /\ bookings[id].status # "none"
    /\ procs' = [procs EXCEPT ![w] = [IdleRacer EXCEPT !.kind = "confirm", !.pc = "pre_saved",
                                       !.old_status = bookings[id].status]]
    /\ UNCHANGED <<today, bookings, settingsRows, invoices, expenses, payments, lastOp, subscriptions>>

\* Booking.save writes the row
ConfirmWrite(w, id) ==
    /\ procs[w].kind = "confirm" /\ procs[w].pc = "pre_saved"
    /\ bookings' = [bookings EXCEPT ![id] =
                        BookingNormalise([bookings[id] EXCEPT !.status = "confirmed"], today)]
    /\ procs' = [procs EXCEPT ![w].pc = "written"]
    /\ UNCHANGED <<today, settingsRows, invoices, expenses, payments, lastOp, subscriptions>>

\* create_first_invoice_on_confirm up to its existence pre-check
ConfirmPreCheck(w, id) ==
    /\ procs[w].kind = "confirm" /\ procs[w].pc = "written"
    /\ procs' = IF FirstInvoiceSkip(id, FALSE, procs[w].old_status, bookings, settingsRows,
                                    invoices, today)
                THEN Finish(w, "skipped")
                ELSE [procs EXCEPT ![w].pc = "checked",
                                   ![w].row = FirstInvoice(id, bookings, settingsRows,
                                                           invoices, today)]
    /\ UNCHANGED <<today, bookings, settingsRows, invoices, expenses, payments, lastOp, subscriptions>>

\* generate_monthly_invoices up to its existence pre-check, for one booking
SweepPreCheck(w, id) ==
    /\ procs[w].pc = "idle"
    /\ bookings[id].status # "none"
    /\ procs' = IF ~SweepEligible(id, bookings, settingsRows, invoices, today)
                THEN [procs EXCEPT ![w] = [IdleRacer EXCEPT !.kind = "sweep", !.pc = "done",
                                                          !.outcome = "skipped"]]
                ELSE [procs EXCEPT ![w] = [IdleRacer EXCEPT !.kind = "sweep", !.pc = "checked",
                                             !.row = SweepInvoice(id, bookings, settingsRows,
                                                                  invoices, today)]]
    /\ UNCHANGED <<today, bookings, settingsRows, invoices, expenses, payments, lastOp, subscriptions>>

\* Invoice.save up to and including full_clean, against the rows committed so
\* far. A ValidationError is logged by the receiver and ends the sweep.
RaceValidate(w) ==
    /\ procs[w].pc = "checked"
    /\ LET v == InvoicePrepare(procs[w].row, TRUE, bookings, invoices, today) IN
       procs' = IF v.ok THEN [procs EXCEPT ![w].pc = "validated", ![w].row = v.row]
                ELSE Finish(w, IF procs[w].kind = "sweep" THEN "raised" ELSE "logged")
    /\ UNCHANGED <<today, bookings, settingsRows, invoices, expenses, payments, lastOp, subscriptions>>

\* The INSERT and the end of the atomic block. An IntegrityError is logged by
\* the receiver and ends the sweep.
RaceInsert(w) ==
    /\ procs[w].pc = "validated"
    /\ LET row == [procs[w].row EXCEPT !.id = NextInvoiceId(invoices)]
           ok  == ~UniqueViolation(invoices, row) /\ ~CheckViolation(row)
       IN  /\ invoices' = IF ok THEN invoices \cup {row} ELSE invoices
           /\ expenses' = IF ok /\ procs[w].kind = "confirm"
                          THEN expenses \cup FirstInvoiceLineItems(row.id, bookings[row.booking])
                          ELSE expenses
           /\ procs' = Finish(w, IF ok THEN "created" ELSE "integrity_error")
    /\ UNCHANGED <<today, bookings, settingsRows, payments, lastOp, subscriptions>>

\* The booking as it stands when the workers start: pending, or confirmed a
\* month ago with its first invoice
RaceInit ==
    /\ \E pr \in Pricings, st \in {"pending", "confirmed"} :
          /\ bookings = [BaseBookings(pr) EXCEPT ![1].status = st]
          /\ invoices = IF st = "confirmed" THEN AfterConfirm(pr).invoices ELSE {}
          /\ expenses = IF st = "confirmed" THEN AfterConfirm(pr).expenses ELSE {}
          /\ today = IF st = "confirmed" THEN PayDay ELSE CheckinDay
    /\ \E s \in {NoSettings} \cup BuildingChoices :
          settingsRows = [NoRows EXCEPT !["building"] = s]
    /\ payments = [p \in PaymentIds |-> NoPayment]
    /\ procs = [w \in Workers |-> IdleRacer]
    /\ subscriptions = {}
    /\ lastOp = NoOp

NextRace ==
    \/ \E w \in Workers, id \in BookingIds : ConfirmPreSave(w, id)
    \/ \E w \in Workers, id \in BookingIds : ConfirmWrite(w, id)
    \/ \E w \in Workers, id \in BookingIds : ConfirmPreCheck(w, id)
    \/ \E w \in Workers, id \in BookingIds : SweepPreCheck(w, id)
    \/ \E w \in Workers : RaceValidate(w)
    \/ \E w \in Workers : RaceInsert(w)

SpecRace == RaceInit /\ [][NextRace]_vars

-----------------------------------------------------------------------------
(* SpecConc: Payment.save calls in flight at once, under READ COMMITTED. A     *)
(* transaction's writes stay in the worker until its commit; row locks (the    *)
(* UPDATE of the payment row, select_for_update on invoices) are held until    *)
(* commit or rollback.                                                         *)

IdleSaver == [pc |-> "idle", payment |-> 0, invoice |-> 0, amount |-> 0,
              is_create |-> FALSE, old_amount |-> 0, old_invoice_id |-> 0,
              locks |-> {}, inv |-> 0, rows |-> {}, outcome |-> "none"]

PaymentLock(p) == <<"payment", p>>
InvoiceLock(i) == <<"invoice", i>>

LockedByOther(w, lock) == \E v \in Workers \ {w} : lock \in procs[v].locks

\* The lock a worker's next step needs
Wanted(w) ==
    IF procs[w].pc = "read" /\ ~procs[w].is_create THEN {PaymentLock(procs[w].payment)}
    ELSE IF procs[w].pc = "lock_new" THEN {InvoiceLock(procs[w].invoice)}
    ELSE IF procs[w].pc = "lock_old" THEN {InvoiceLock(procs[w].old_invoice_id)}
    ELSE {}

Blocked(w) == \E lock \in Wanted(w) : LockedByOther(w, lock)

\* The invoices as a worker's transaction sees them: committed rows under its
\* own writes
Overlay(invs, rows) == {o \in invs : \A r \in rows : r.id # o.id} \cup rows

Rollback(w, outcome) ==
    [procs EXCEPT ![w].pc = "done", ![w].locks = {}, ![w].rows = {}, ![w].outcome = outcome]

\* Payment.save before transaction.atomic(): is_create, and the stored amount
\* and link of an existing payment
SaveReadPrev(w, p, new_invoice, new_amount) ==
    /\ procs[w].pc = "idle"
    /\ new_invoice = 0 \/ \E o \in invoices : o.id = new_invoice
    /\ \A v \in Workers \ {w} : procs[v].is_create => procs[v].payment # p
    /\ procs' = [procs EXCEPT ![w] =
                    [IdleSaver EXCEPT !.pc = "read", !.payment = p, !.invoice = new_invoice,
                                      !.amount = new_amount,
                                      !.is_create = ~payments[p].exists,
                                      !.old_amount = payments[p].amount,
                                      !.old_invoice_id = payments[p].invoice]]
    /\ UNCHANGED <<today, bookings, settingsRows, invoices, expenses, payments, lastOp, subscriptions>>

\* super().save(): the INSERT, or the UPDATE once the row is free
SaveWriteRow(w) ==
    /\ procs[w].pc = "read"
    /\ ~Blocked(w)
    /\ procs' = [procs EXCEPT
                    ![w].pc = IF procs[w].invoice = 0 THEN "commit" ELSE "lock_new",
                    ![w].locks = @ \cup {PaymentLock(procs[w].payment)}]
    /\ UNCHANGED <<today, bookings, settingsRows, invoices, expenses, payments, lastOp, subscriptions>>

\* inv = Invoice.objects.select_for_update().get(pk=self.invoice_id)
SaveLockInvoice(w) ==
    /\ procs[w].pc = "lock_new"
    /\ ~Blocked(w)
    /\ procs' = [procs EXCEPT
                    ![w].pc = IF /\ ~procs[w].is_create
                                 /\ procs[w].old_invoice_id # procs[w].invoice
                                 /\ procs[w].old_invoice_id # 0
                              THEN "lock_old" ELSE "commit",
                    ![w].locks = @ \cup {InvoiceLock(procs[w].invoice)},
                    ![w].inv = procs[w].invoice]
    /\ UNCHANGED <<today, bookings, settingsRows, invoices, expenses, payments, lastOp, subscriptions>>

\* The old invoice locked and given back the old amount
SaveReverseOld(w) ==
    /\ procs[w].pc = "lock_old"
    /\ ~Blocked(w)
    /\ LET old_inv == InvoiceById(invoices, procs[w].old_invoice_id)
           r == SaveIfTouched(procs[w].old_amount # 0,
                              AdjustPaymentDelta(old_inv, 0 - procs[w].old_amount),
                              bookings, invoices, today)
       IN  procs' = IF r.ok
                    THEN [procs EXCEPT ![w].pc = "commit",
                                       ![w].locks = @ \cup {InvoiceLock(old_inv.id)},
                                       ![w].rows = IF procs[w].old_amount # 0 THEN {r.row} ELSE {}]
                    ELSE Rollback(w, "raised")
    /\ UNCHANGED <<today, bookings, settingsRows, invoices, expenses, payments, lastOp, subscriptions>>

\* The amount applied to inv as it was read under its lock, and the commit
SaveApplyAndCommit(w) ==
    /\ procs[w].pc = "commit"
    /\ LET me    == procs[w]
           seen  == Overlay(invoices, me.rows)
           inv   == InvoiceById(invoices, me.inv)
           delta == me.amount - me.old_amount
           r == IF me.invoice = 0 THEN [ok |-> TRUE, invoices |-> seen]
                ELSE IF me.is_create
                THEN SaveIfTouched(TRUE, ApplyPaymentAmount(inv, me.amount),
                                   bookings, seen, today)
                ELSE IF me.old_invoice_id = me.invoice
                THEN SaveIfTouched(delta # 0, AdjustPaymentDelta(inv, delta),
                                   bookings, seen, today)
                ELSE SaveIfTouched(TRUE, AdjustPaymentDelta(inv, me.amount),
                                   bookings, seen, today)
       IN  /\ invoices' = IF r.ok THEN r.invoices ELSE invoices
           /\ payments' = IF r.ok
                          THEN [payments EXCEPT ![me.payment] =
                                   [exists |-> TRUE, invoice |-> me.invoice,
                                    amount |-> me.amount]]
                          ELSE payments
           /\ procs' = Rollback(w, IF r.ok THEN "committed" ELSE "raised")
    /\ UNCHANGED <<today, bookings, settingsRows, expenses, lastOp, subscriptions>>

\* The database ends a lock cycle by aborting one of its transactions
DeadlockAbort(w) ==
    /\ \E v \in Workers \ {w} :
          /\ \E lock \in Wanted(w) : lock \in procs[v].locks
          /\ \E lock \in Wanted(v) : lock \in procs[w].locks
    /\ procs' = Rollback(w, "deadlock")
    /\ UNCHANGED <<today, bookings, settingsRows, invoices, expenses, payments, lastOp, subscriptions>>

\* Payment 1 is on the first invoice; payment 2 is on the second, or not yet
\* made. lastOp keeps the tables as they were when the workers started.
ConcInit ==
    /\ today = PayDay
    /\ bookings = BaseBookings(FullPricing)
    /\ settingsRows = NoRows
    /\ expenses = AfterConfirm(FullPricing).expenses
    /\ \E second \in {0, 2} :
          LET invs0 == SecondInvoice(FullPricing, "sweep")
              pays0 == [p \in PaymentIds |-> NoPayment]
              one   == PaymentSave(1, 1, 1, pays0, invs0, bookings, today)
              two   == IF second = 0 THEN one
                       ELSE PaymentSave(2, second, 1, one.payments, one.invoices,
                                        bookings, today)
          IN  /\ payments = two.payments
              /\ invoices = two.invoices
              /\ lastOp = [op |-> "concurrent", payments |-> two.payments,
                           invoices |-> two.invoices]
    /\ procs = [w \in Workers |-> IdleSaver]
    /\ subscriptions = {}

NextConc ==
    \/ \E w \in Workers, p \in PaymentIds, i \in InvoiceIds \cup {0}, a \in 1..MaxAmount :
          SaveReadPrev(w, p, i, a)
    \/ \E w \in Workers : SaveWriteRow(w)
    \/ \E w \in Workers : SaveLockInvoice(w)
    \/ \E w \in Workers : SaveReverseOld(w)
    \/ \E w \in Workers : SaveApplyAndCommit(w)
    \/ \E w \in Workers : DeadlockAbort(w)

SpecConc == ConcInit /\ [][NextConc]_vars

-----------------------------------------------------------------------------
(* Properties of the generation triggers, checked under Spec *)

MonthOf(d) == <<d.y, d.m>>

EffectiveSettings == ResolveSettings(settingsRows)

AutomaticMonthly(s) == s.generate_type = "automatic" /\ s.period = "monthly"

InvoicesOf(id, cm) == {o \in invoices : o.booking = id /\ MonthOf(o.cycle_month) = MonthOf(cm)}

\* C1: for every booking and cycle month at most one invoice exists, whatever
\* sequence of confirmations and sweeps ran; and a sweep that directly follows
\* a sweep (same bookings, settings and date) creates nothing.
C1_IdempotentGeneration ==
    /\ \A o1 \in invoices, o2 \in invoices :
          (o1.booking = o2.booking /\ MonthOf(o1.cycle_month) = MonthOf(o2.cycle_month))
              => o1 = o2
    /\ \A o \in invoices : o.cycle_month.d = 1
    /\ (lastOp.op = "sweep" /\ lastOp.again) => (lastOp.created = {} /\ lastOp.ret = 0)

\* A sweep ran twice in a row on a day on which the first run created an invoice
C1_Witness ==
    /\ lastOp.op = "sweep" /\ lastOp.again
    /\ \E o \in invoices : o.origin = "sweep" /\ o.issue_date = today

\* C7 (as claimed): once a save has confirmed a booking with a start_date
\* under automatic + monthly + start settings, the invoice of the first window
\* exists, wherever start_date lies relative to today.
C7_FirstInvoiceAfterConfirm ==
    \A id \in BookingIds :
        (/\ lastOp.op = "booking_save" /\ lastOp.booking = id /\ lastOp.confirm
         /\ bookings[id].start_date # NoDate
         /\ AutomaticMonthly(EffectiveSettings)
         /\ EffectiveSettings.generate_on = "start")
        => InvoicesOf(id, MonthlyPeriodWindow(EffectiveSettings, bookings[id].start_date,
                                               bookings[id]).start) # {}

\* The windows of a booking that end today
WindowsEndingToday(id) ==
    {w \in {MonthlyPeriodWindow(EffectiveSettings, ref, bookings[id]) : ref \in Calendar} :
        w.end = today}

\* C8 (as claimed): under automatic + monthly + end settings a confirmation
\* creates no invoice unless today is the window's end, and a sweep that runs
\* on the end date of a window of a confirmed, active booking leaves an
\* invoice for that window.
C8_EndOfWindowBySweep ==
    \A id \in BookingIds :
        (AutomaticMonthly(EffectiveSettings) /\ EffectiveSettings.generate_on = "end")
        => /\ (/\ lastOp.op = "booking_save" /\ lastOp.booking = id /\ lastOp.confirm
                /\ MonthlyPeriodWindow(EffectiveSettings, bookings[id].start_date,
                                        bookings[id]).end # today)
               => lastOp.created = {}
           /\ (lastOp.op = "sweep" /\ SweepActive(bookings[id], today))
               => \A w \in WindowsEndingToday(id) : InvoicesOf(id, w.start) # {}

\* C9: a sweep creates an invoice for a booking only if the booking is
\* confirmed and its date range contains today, the effective settings are
\* automatic + monthly, today is the generate_on date of the window of today,
\* and the invoice is the only one of its (booking, cycle month); the count it
\* returns is the number of invoices it created.
C9_SweepCreatesOnlyWhenDue ==
    (lastOp.op = "sweep") =>
        /\ lastOp.ret = Cardinality(lastOp.created)
        /\ \A r \in lastOp.created :
              LET b == bookings[r.booking]
                  w == MonthlyPeriodWindow(EffectiveSettings, today, b)
              IN  /\ b.status = "confirmed"
                  /\ (b.start_date = NoDate \/ ~DateLt(today, b.start_date))
                  /\ (b.end_date = NoDate \/ ~DateLt(b.end_date, today))
                  /\ EffectiveSettings.generate_type = "automatic"
                  /\ EffectiveSettings.period = "monthly"
                  /\ w.generate_on = today
                  /\ r.cycle_month = Date(w.start.y, w.start.m, 1)
                  /\ InvoicesOf(r.booking, r.cycle_month) = {r}
                  /\ r \in invoices

\* A sweep has just created an invoice
C9_Witness ==
    lastOp.op = "sweep" /\ lastOp.created # {} /\ lastOp.ret = 1

\* C10: an invoice created at confirmation bills rent + maintenance - discount
\* + security deposit (floored at 0), with total = balance = amount, status open
\* and due date the window end; an invoice created by the sweep bills rent +
\* maintenance - discount (floored at 0); the InvoiceExpense rows change no total.
C10_DepositOnFirstInvoiceOnly ==
    /\ \A o \in invoices :
          LET b    == bookings[o.booking]
              net  == b.monthly_rent + b.maintenance_amount - b.discount_amount
              want == IF o.origin = "confirm" THEN net + b.security_deposit ELSE net
          IN  /\ o.origin \in {"confirm", "sweep"}
              /\ o.amount = (IF want < 0 THEN 0 ELSE want)
              /\ o.total_amount = o.amount
              /\ o.balance_due = o.amount
    /\ \A r \in lastOp.created :
          /\ r.status = "open"
          /\ r.origin = "confirm" =>
                r.due_date = MonthlyPeriodWindow(EffectiveSettings,
                                 bookings[r.booking].start_date, bookings[r.booking]).end
          /\ r.origin = "sweep" =>
                r.due_date = MonthlyPeriodWindow(EffectiveSettings, today,
                                                 bookings[r.booking]).end

\* A booking with a deposit has a first invoice with line items and a later
\* invoice from the sweep
C10_Witness ==
    \E o1 \in invoices, o2 \in invoices :
        /\ o1.booking = o2.booking
        /\ o1.origin = "confirm" /\ o2.origin = "sweep"
        /\ bookings[o1.booking].security_deposit > 0
        /\ o1.amount > o2.amount
        /\ \E e \in expenses : e.invoice = o1.id /\ e.label = "Security Deposit"

C19_CheckinAnchorWindow ==
    (lastOp.op = "window" /\ lastOp.settings.monthly_cycle = "checkin_date")
    => LET sd   == bookings[lastOp.booking].start_date
           last == MonthRange(sd.y, sd.m)
           ref  == lastOp.ref
           w    == lastOp.window
           aday == IF sd.d = 1 \/ sd.d >= last THEN last ELSE sd.d
           day  == IF aday < MonthRange(ref.y, ref.m) THEN aday ELSE MonthRange(ref.y, ref.m)
           ny   == IF ref.m = 12 THEN ref.y + 1 ELSE ref.y
           nm   == IF ref.m = 12 THEN 1 ELSE ref.m + 1
       IN  /\ lastOp.anchor = Date(sd.y, sd.m, aday)
           /\ w.start = Date(ref.y, ref.m, day)
           /\ w.end = Date(ny, nm, IF day < MonthRange(ny, nm) THEN day ELSE MonthRange(ny, nm))

\* A check-in on the 1st of a 31-day month, seen from a reference date in
\* April: the anchor is the 31st and the window runs April 30 to May 30
C19_Witness ==
    /\ lastOp.op = "window" /\ lastOp.settings.monthly_cycle = "checkin_date"
    /\ bookings[lastOp.booking].start_date.d = 1
    /\ lastOp.anchor.d = 31
    /\ lastOp.ref.m = 4
    /\ lastOp.window.start.d = 30 /\ lastOp.window.end.d = 30

\* C20: a booking save and a sweep leave the InvoiceSettings rows as they
\* were, and every invoice either of them creates is the one the settings
\* resolved in the order building row, owner-global row, in-memory default
\* (automatic, monthly, start, checkin_date) call for: those settings are
\* automatic + monthly, and the invoice has the cycle month and the due date
\* of their window, taken at the check-in date by the confirmation trigger and
\* at today by the sweep.
C20_SettingsResolutionOrder ==
    [][lastOp'.op \in {"booking_save", "sweep"}
          => /\ settingsRows' = settingsRows
             /\ \A r \in lastOp'.created :
                   LET s == IF settingsRows["building"].generate_type # "none"
                            THEN settingsRows["building"]
                            ELSE IF settingsRows["global"].generate_type # "none"
                            THEN settingsRows["global"]
                            ELSE [generate_type |-> "automatic", period |-> "monthly",
                                  generate_on |-> "start", monthly_cycle |-> "checkin_date",
                                  monthly_custom_day |-> 0]
                       b == bookings'[r.booking]
                       w == MonthlyPeriodWindow(s, IF r.origin = "confirm" THEN b.start_date
                                                   ELSE today, b)
                   IN  /\ s.generate_type = "automatic" /\ s.period = "monthly"
                       /\ MonthOf(r.cycle_month) = MonthOf(w.start)
                       /\ r.due_date = w.end
                       /\ s.generate_on = "end" => today = w.end]_vars

\* A sweep created an invoice while a building row and an owner-global row
\* with different windows both exist
C20_Witness ==
    /\ lastOp.op = "sweep" /\ lastOp.created # {}
    /\ settingsRows["building"] # NoSettings /\ settingsRows["global"] # NoSettings
    /\ settingsRows["building"].monthly_cycle # settingsRows["global"].monthly_cycle

-----------------------------------------------------------------------------
(* Properties of the balance, checked under SpecInv and SpecPay *)

RECURSIVE SumAmounts(_, _)
SumAmounts(pays, ids) ==
    IF ids = {} THEN 0
    ELSE LET p == CHOOSE x \in ids : TRUE
         IN  pays[p].amount + SumAmounts(pays, ids \ {p})

\* The payments currently linked to invoice i, summed
LinkedTotal(i) ==
    SumAmounts(payments, {p \in PaymentIds : payments[p].exists /\ payments[p].invoice = i})

\* C2 (as claimed): after any payment create, update and delete, every
\* invoice's balance_due is max(total_amount - sum of its linked payments, 0).
C2_BalanceMatchesLinkedPayments ==
    \A o \in invoices :
        o.balance_due = (IF o.total_amount - LinkedTotal(o.id) < 0 THEN 0
                         ELSE o.total_amount - LinkedTotal(o.id))

\* C3: balance_due is never negative, on the stored rows and on the object a
\* call of apply_payment_amount or adjust_payment_delta leaves, for arguments
\* of either sign.
C3_BalanceNeverNegative ==
    /\ \A o \in invoices : o.balance_due >= 0
    /\ lastOp.op \in {"apply", "adjust"} => lastOp.balance >= 0

\* A payment larger than the balance was applied and floored at 0
C3_Witness ==
    /\ lastOp.op = "apply" /\ lastOp.arg > lastOp.was /\ lastOp.was > 0
    /\ lastOp.balance = 0 /\ lastOp.saved

\* C4: a positive apply_payment_amount or a non-zero adjust_payment_delta that
\* leaves balance 0 leaves status paid, whatever the status was; a positive
\* payment on a draft or open invoice that leaves a balance leaves status
\* partial. The stored row carries the same when the save passed.
C4_StatusAfterPayment ==
    /\ (lastOp.op = "apply" /\ lastOp.arg > 0 /\ lastOp.balance = 0)
           => lastOp.status = "paid"
    /\ (lastOp.op = "adjust" /\ lastOp.arg # 0 /\ lastOp.balance = 0)
           => lastOp.status = "paid"
    /\ (lastOp.op = "apply" /\ lastOp.arg > 0 /\ lastOp.prior \in {"draft", "open"}
           /\ lastOp.balance > 0)
           => lastOp.status = "partial"
    /\ (lastOp.op \in {"apply", "adjust"} /\ lastOp.saved)
           => \E o \in invoices : /\ o.id = lastOp.id
                                   /\ o.status = lastOp.status
                                   /\ o.balance_due = lastOp.balance

\* A payment took a draft invoice to partial while another invoice, once void,
\* was paid in full
C4_Witness ==
    /\ lastOp.op = "apply" /\ lastOp.arg > 0 /\ lastOp.prior = "draft"
    /\ lastOp.status = "partial" /\ lastOp.saved
    /\ \E o \in invoices : o.id # lastOp.id /\ o.status = "paid" /\ o.balance_due = 0

\* C13: apply_payment_amount with amount <= 0 changes neither the balance nor
\* the status, of the object and of the stored row; with amount > 0 it sets the
\* balance to max(balance - amount, 0), and when a balance remains it leaves
\* every status other than draft and open as it was.
C13_ApplyPaymentFrame ==
    lastOp.op = "apply" =>
        /\ lastOp.arg <= 0 =>
              /\ lastOp.balance = lastOp.was /\ lastOp.status = lastOp.prior
              /\ \E o \in invoices : /\ o.id = lastOp.id
                                      /\ o.balance_due = lastOp.was
                                      /\ o.status = lastOp.prior
        /\ lastOp.arg > 0 =>
              /\ lastOp.balance = (IF lastOp.was - lastOp.arg > 0
                                   THEN lastOp.was - lastOp.arg ELSE 0)
              /\ (lastOp.balance # 0 /\ lastOp.prior \notin {"draft", "open"})
                    => lastOp.status = lastOp.prior
              /\ lastOp.saved => \E o \in invoices : /\ o.id = lastOp.id
                                                      /\ o.balance_due = lastOp.balance
                                                      /\ o.status = lastOp.status

\* A part payment on an overdue invoice left it overdue, stored
C13_Witness ==
    /\ lastOp.op = "apply" /\ lastOp.arg > 0 /\ lastOp.prior = "overdue"
    /\ lastOp.balance > 0 /\ lastOp.status = "overdue" /\ lastOp.saved

\* C14: adjust_payment_delta with delta = 0 changes nothing; with any other
\* delta it sets the balance to max(balance - delta, 0), a negative delta
\* raising it by |delta|; the status is paid when the new balance is 0, else
\* partial when it was draft, open or paid, else what it was.
C14_AdjustPaymentDelta ==
    lastOp.op = "adjust" =>
        /\ lastOp.arg = 0 =>
              /\ lastOp.balance = lastOp.was /\ lastOp.status = lastOp.prior
              /\ \E o \in invoices : /\ o.id = lastOp.id
                                      /\ o.balance_due = lastOp.was
                                      /\ o.status = lastOp.prior
        /\ lastOp.arg # 0 =>
              /\ lastOp.balance = (IF lastOp.was - lastOp.arg > 0
                                   THEN lastOp.was - lastOp.arg ELSE 0)
              /\ lastOp.arg < 0 => lastOp.balance = lastOp.was - lastOp.arg
              /\ lastOp.status = (IF lastOp.balance = 0 THEN "paid"
                                  ELSE IF lastOp.prior \in {"draft", "open", "paid"}
                                  THEN "partial" ELSE lastOp.prior)
              /\ lastOp.saved => \E o \in invoices : /\ o.id = lastOp.id
                                                      /\ o.balance_due = lastOp.balance
                                                      /\ o.status = lastOp.status

\* A negative delta on a paid invoice raised its balance and made it partial,
\* while another invoice is overdue
C14_Witness ==
    /\ lastOp.op = "adjust" /\ lastOp.arg < 0 /\ lastOp.prior = "paid"
    /\ lastOp.was = 0 /\ lastOp.balance = 0 - lastOp.arg
    /\ lastOp.status = "partial" /\ lastOp.saved
    /\ \E o \in invoices : o.id # lastOp.id /\ o.status = "overdue"

\* C15 (as claimed): a save of an existing payment that changes its invoice
\* link, to another invoice or to none, raises the old invoice's balance by the
\* old amount and lowers the new invoice's balance, when there is one, by the
\* full new amount, floored at 0; a save that keeps the link applies only the
\* difference new amount - old amount to that invoice.
C15_MovedPaymentReversed ==
    [][\A p \in PaymentIds :
          (lastOp'.op = "payment_save" /\ payments[p].exists /\ payments'[p] # payments[p])
          => IF payments'[p].invoice # payments[p].invoice
             THEN /\ payments[p].invoice # 0 =>
                        InvoiceById(invoices', payments[p].invoice).balance_due =
                           InvoiceById(invoices, payments[p].invoice).balance_due
                              + payments[p].amount
                  /\ payments'[p].invoice # 0 =>
                        InvoiceById(invoices', payments'[p].invoice).balance_due =
                           Max2(InvoiceById(invoices, payments'[p].invoice).balance_due
                                   - payments'[p].amount, 0)
             ELSE payments[p].invoice # 0 =>
                        InvoiceById(invoices', payments[p].invoice).balance_due =
                           Max2(InvoiceById(invoices, payments[p].invoice).balance_due
                                   - (payments'[p].amount - payments[p].amount), 0)]_vars

\* The invoice table Invoice.save(x) is to leave, by the rules of rejection
\* of Invoice.clean; sign_rule adds invoice_non_negative_amounts.
SaveAsSpecified(x, adding, sign_rule) ==
    LET b      == bookings[x.booking]
        cm     == Date(x.cycle_month.y, x.cycle_month.m, 1)
        upper  == IF b.end_date # NoDate THEN b.end_date ELSE today
        total  == x.amount + x.tax_amount - x.discount_amount
        reject == \/ b.status # "confirmed" \/ ~b.booked_at
                  \/ Ord(cm) < Ord(Date(b.start_date.y, b.start_date.m, 1))
                  \/ Ord(cm) > Ord(Date(upper.y, upper.m, 1))
                  \/ \E o \in invoices : /\ o.id # x.id /\ o.booking = x.booking
                                          /\ o.cycle_month = cm
                  \/ Ord(x.due_date) < Ord(x.issue_date)
                  \/ x.discount_amount > x.amount + x.tax_amount
                  \/ sign_rule /\ (x.amount < 0 \/ x.tax_amount < 0 \/ x.discount_amount < 0)
    IN  IF reject THEN invoices
        ELSE {o \in invoices : o.id # x.id} \cup
             {[x EXCEPT !.cycle_month = cm, !.total_amount = total,
                        !.balance_due = IF adding THEN total ELSE x.balance_due]}

\* C16 (as claimed): Invoice.save persists nothing when the booking is not
\* confirmed, the normalized cycle_month is outside the months from the anchor
\* to end_date (or today), the (booking, cycle_month) is taken, due_date <
\* issue_date, or discount > amount + tax; every other save is persisted with
\* total = amount + tax - discount and, on creation, balance = total.
C16_SaveRejectsOrPersists ==
    [][lastOp'.op = "invoice_save"
          => invoices' = SaveAsSpecified(lastOp'.arg, lastOp'.adding, FALSE)]_vars

\* C16 (amended): as above, and a save with a negative amount, tax_amount or
\* discount_amount is rejected as well (invoice_non_negative_amounts).
C16_SaveRejectsOrPersistsNonNegative ==
    [][lastOp'.op = "invoice_save"
          => invoices' = SaveAsSpecified(lastOp'.arg, lastOp'.adding, TRUE)]_vars

\* An invoice entered for the current month on a day other than the first was
\* stored on the first, with its total and balance, next to the first invoice
C16_Witness ==
    /\ lastOp.op = "invoice_save" /\ lastOp.adding /\ lastOp.saved
    /\ lastOp.arg.cycle_month.d # 1 /\ lastOp.arg.discount_amount > 0
    /\ \E o \in invoices : /\ o.id = lastOp.arg.id
                            /\ o.cycle_month.d = 1
                            /\ o.total_amount = 0 /\ o.balance_due = 0
    /\ Cardinality(invoices) = 2

-----------------------------------------------------------------------------
(* Properties of concurrent runs, checked under SpecRace and SpecConc *)

\* C6: whatever the interleaving of confirmations and sweeps for one booking,
\* at most one invoice row is stored for a (booking, cycle_month), also when
\* several workers passed the pre-check and validation before any inserted.
C6_OneInvoicePerKeyUnderRace ==
    \A o1 \in invoices, o2 \in invoices :
        (o1.booking = o2.booking /\ o1.cycle_month = o2.cycle_month) => o1 = o2

\* A confirmation and a sweep both validated an invoice for one key; one
\* inserted it and the other met the unique constraint
C6_Witness ==
    \E w \in Workers, v \in Workers :
        /\ procs[w].kind = "confirm" /\ procs[v].kind = "sweep"
        /\ procs[w].row.cycle_month = procs[v].row.cycle_month
        /\ {procs[w].outcome, procs[v].outcome} = {"created", "integrity_error"}

\* Payment.save calls one after another, in the order given
RECURSIVE SerialSaves(_, _, _)
SerialSaves(order, pays, invs) ==
    IF order = <<>> THEN invs
    ELSE LET me == procs[Head(order)]
             r  == PaymentSave(me.payment, me.invoice, me.amount, pays, invs, bookings, today)
         IN  SerialSaves(Tail(order), r.payments, r.invoices)

\* The orders in which the saves that committed can be run one at a time
SerialOrders ==
    LET done == {w \in Workers : procs[w].outcome = "committed"} IN
    {order \in UNION {[1..n -> done] : n \in {Cardinality(done)}} :
        \A i \in DOMAIN order, j \in DOMAIN order : order[i] = order[j] => i = j}

\* C5 (as claimed): when concurrent Payment.save calls have all ended, the
\* invoices are as some serial order of the committed saves leaves them.
C5_ConcurrentSavesSerializable ==
    (\A w \in Workers : procs[w].pc = "done")
        => \E order \in SerialOrders :
              SerialSaves(order, lastOp.payments, lastOp.invoices) = invoices


-----------------------------------------------------------------------------
(* Cancellation voiding and the overdue task (SpecLife) *)

\* C11 (as claimed): a save that takes a booking from another status into
\* canceled voids exactly that booking's draft and open invoices with
\* cycle_month on or after the first day of the current month, and leaves every
\* other invoice row as it was; a save of a booking that already was canceled
\* changes no invoice.
C11_CancelVoidsDraftAndOpen ==
    [][\A id \in DOMAIN bookings :
          (lastOp'.op = "booking_save" /\ lastOp'.booking = id
             /\ bookings'[id].status = "canceled")
          => invoices' = IF bookings[id].status \in {"none", "canceled"} THEN invoices
                         ELSE {IF /\ o.booking = id
                                  /\ o.status \in {"draft", "open"}
                                  /\ Ord(Date(today.y, today.m, 1)) <= Ord(o.cycle_month)
                               THEN [o EXCEPT !.status = "void"] ELSE o : o \in invoices}]_vars

\* C12: mark_overdue_invoices turns exactly the open and partial invoices whose
\* due_date is before today into overdue, changes nothing else, returns how
\* many it changed, and returns 0 when run again at once.
C12_MarkOverdue ==
    [][lastOp'.op = "overdue"
          => /\ invoices' = {IF o.status \in {"open", "partial"} /\ Ord(o.due_date) < Ord(today)
                             THEN [o EXCEPT !.status = "overdue"] ELSE o : o \in invoices}
             /\ lastOp'.ret = Cardinality(invoices \ invoices')
             /\ \A o \in invoices' :
                   ~(o.status \in {"open", "partial"} /\ Ord(o.due_date) < Ord(today))
             /\ <<bookings, payments, expenses, settingsRows>>' =
                   <<bookings, payments, expenses, settingsRows>>
             /\ (lastOp.op = "overdue" => lastOp'.ret = 0 /\ invoices' = invoices)]_vars

\* An overdue run has just turned a partial invoice overdue and left an open
\* invoice that is not yet due as it was
C12_Witness ==
    /\ lastOp.op = "overdue" /\ lastOp.ret > 0
    /\ \E o \in invoices : o.status = "overdue" /\ o.balance_due < o.total_amount
    /\ \E o \in invoices : o.status = "open" /\ ~DateLt(o.due_date, today)

------------------------------------------------------------------------------
(* Subscriptions: validity and limits (subscription/utils.py) *)

\* Instants (datetimes) are counted in ticks, TicksPerDay to a local day: the
\* first tick of a day is its midnight, the last one its 23:59:59.999999
TicksPerDay == 3

\* An optional value is a set of at most one element: {} is None

\* accounts.User rows: role and pg_admin_id
Users ==
    [admin |-> [role |-> "pg_admin", pg_admin_id |-> {}],
     staff |-> [role |-> "pg_staff", pg_admin_id |-> {"admin"}],
     temp  |-> [role |-> "pg_staff", pg_admin_id |-> {}]]

\* SubscriptionPlan.limits by plan slug: basic bounds the buildings only, pro
\* bounds nothing (a value of None)
PlanLimits ==
    [basic |-> [k \in {"max_buildings"} |-> {2}],
     pro   |-> [k \in {"max_buildings", "max_staff"} |-> {}]]

\* The interval codes stored in the rows; what remains of a code without its last letter,
\* read by int() (no entry where int() raises), and its last letter
IntervalCodes == {"", "1m", "3m", "14d", "0d", "xd", "monthly", "weekly"}
CodeNumber == [c \in {"1m", "3m", "12m", "14d", "0d"} |->
                  CASE c = "1m" -> 1 [] c = "3m" -> 3 [] c = "12m" -> 12
                    [] c = "14d" -> 14 [] c = "0d" -> 0]
CodeUnit(c) == IF c \in {"14d", "0d", "xd"} THEN "d"
               ELSE IF c \in {"1m", "3m", "12m"} THEN "m" ELSE "y"

\* interval_days(code)
IntervalDays(code) ==
    IF code = "" THEN 28
    ELSE IF CodeUnit(code) = "d"
         THEN IF code \in DOMAIN CodeNumber THEN Max2(1, CodeNumber[code]) ELSE 28
         ELSE LET c == CASE code = "monthly" -> "1m" [] code = "yearly" -> "12m"
                         [] OTHER -> code
              IN  IF CodeUnit(c) = "m" THEN Max2(1, CodeNumber[c]) * 28 ELSE 28

\* compute_period_end(start, interval_code): the last instant of the local day
\* that lies interval_days after start
ComputePeriodEnd(start, interval_code) ==
    LET end == start + IntervalDays(interval_code) * TicksPerDay
    IN  (end \div TicksPerDay) * TicksPerDay + (TicksPerDay - 1)

\* get_owner(user)
GetOwner(user) ==
    IF Users[user].role = "pg_staff" /\ Users[user].pg_admin_id # {}
    THEN CHOOSE a \in Users[user].pg_admin_id : TRUE
    ELSE user

\* get_current_subscription(owner): the newest current row, or None
GetCurrentSubscription(owner, subs) ==
    LET cur == {s \in subs : s.owner = owner /\ s.is_current}
    IN  {s \in cur : \A t \in cur : t.id <= s.id}

\* subscription_is_valid(sub) at timezone.now() = now (the statuses stored are
\* lower case already)
SubscriptionIsValid(sub, now) ==
    /\ sub # {}
    /\ \A s \in sub :
          /\ s.status = "active"
          /\ \A end \in (IF s.current_period_end # {} THEN s.current_period_end
                         ELSE {ComputePeriodEnd(s.current_period_start,
                                                s.billing_interval)}) :
                end > now

\* a mutant of get_limit: the plan's limits come before the override
GetLimitPlanFirst(user, limit_key, subs, now) ==
    LET sub == GetCurrentSubscription(GetOwner(user), subs)
    IN  IF ~SubscriptionIsValid(sub, now) THEN {}
        ELSE LET s == CHOOSE x \in sub : TRUE
                 limits == IF limit_key \in DOMAIN PlanLimits[s.plan]
                           THEN PlanLimits[s.plan]
                           ELSE IF s.meta_limits # {}
                                THEN CHOOSE d \in s.meta_limits : TRUE
                                ELSE PlanLimits[s.plan]
             IN  IF limit_key \in DOMAIN limits THEN limits[limit_key] ELSE {}

\* get_limit(user, limit_key) with the default of None
GetLimit(user, limit_key, subs, now) ==
    LET sub == GetCurrentSubscription(GetOwner(user), subs)
    IN  IF ~SubscriptionIsValid(sub, now) THEN {}
        ELSE LET s == CHOOSE x \in sub : TRUE
                 limits == IF s.meta_limits # {}
                           THEN CHOOSE d \in s.meta_limits : TRUE
                           ELSE PlanLimits[s.plan]
             IN  IF limit_key \in DOMAIN limits THEN limits[limit_key] ELSE {}

\* The instants at which validity is asked: the ticks of the days on which the
\* periods in use end, and the midnight after
NowSamples ==
    {0} \cup UNION {{d * TicksPerDay + k : k \in 0..TicksPerDay} : d \in {1, 14, 28, 84}}

\* No row, or one row of the admin's: any status, interval and period on the
\* basic plan, or any plan, override and is_current flag on a monthly period
ValidInit ==
    /\ today = FirstDate
    /\ bookings = BaseBookings(FullPricing)
    /\ settingsRows = NoRows
    /\ invoices = {}
    /\ expenses = {}
    /\ payments = [p \in PaymentIds |-> NoPayment]
    /\ procs = <<>>
    /\ lastOp = NoOp
    /\ \/ subscriptions = {}
       \/ \E st \in {"active", "trialing", "past_due", "canceled", "expired"},
             code \in IntervalCodes, start \in {0, 1},
             end \in {{}, {TicksPerDay + 1}, {28 * TicksPerDay}},
             cur \in BOOLEAN, plan \in DOMAIN PlanLimits,
             ml \in {{}, {[k \in {"max_buildings"} |-> {1}]}, {[k \in {"max_staff"} |-> {}]}} :
             /\ \/ cur /\ plan = "basic" /\ ml = {}
                \/ st \in {"active", "trialing"} /\ code = "1m" /\ start = 0
             /\ subscriptions = {[id |-> 1, owner |-> "admin", plan |-> plan, status |-> st,
                                  billing_interval |-> code,
                                  current_period_start |-> start,
                                  current_period_end |-> end,
                                  cancel_at_period_end |-> FALSE,
                                  is_current |-> cur, meta_limits |-> ml]}

\* subscription_is_valid(sub) for a row or for None
CheckValid(sub, now) ==
    /\ lastOp' = [op |-> "is_valid", sub |-> sub, now |-> now,
                  valid |-> SubscriptionIsValid(sub, now)]
    /\ UNCHANGED <<today, bookings, settingsRows, invoices, expenses, payments, procs,
                   subscriptions>>

\* ensure_limit_not_exceeded(user, limit_key, used_count)
EnsureLimitNotExceeded(user, limit_key, used_count, now) ==
    /\ lastOp' = [op |-> "ensure_limit", user |-> user, limit_key |-> limit_key,
                  used_count |-> used_count, now |-> now,
                  raised |-> \E limit \in GetLimit(user, limit_key, subscriptions, now) :
                                 used_count >= limit]
    /\ UNCHANGED <<today, bookings, settingsRows, invoices, expenses, payments, procs,
                   subscriptions>>

NextValid ==
    \/ \E sub \in {{}} \cup {{s} : s \in subscriptions}, now \in NowSamples :
          CheckValid(sub, now)
    \/ \E user \in DOMAIN Users, key \in {"max_buildings", "max_staff"}, used \in 0..MaxAmount,
          now \in {0, 28 * TicksPerDay} :
          EnsureLimitNotExceeded(user, key, used, now)

SpecValid == ValidInit /\ [][NextValid]_vars

\* C21 as claimed: a subscription is valid exactly when it exists, its status
\* is active or trialing, and its period end (current_period_start plus
\* interval_days of the billing interval where none is stored) lies strictly in
\* the future
C21_ValidIffActiveOrTrialing ==
    lastOp.op = "is_valid" =>
        (lastOp.valid <=>
            /\ lastOp.sub # {}
            /\ \A s \in lastOp.sub :
                  /\ s.status \in {"active", "trialing"}
                  /\ \A end \in (IF s.current_period_end # {} THEN s.current_period_end
                                 ELSE {s.current_period_start
                                          + IntervalDays(s.billing_interval) * TicksPerDay}) :
                        end > lastOp.now)

------------------------------------------------------------------------------
(* Subscriptions: the current row of an owner (subscription/views.py) *)

\* a mutant of the constraint: the index is not there
UniqueCurrentViolationNever(row, subs) == FALSE

\* uniq_current_subscription_per_owner: what the database refuses to store
UniqueCurrentViolation(row, subs) ==
    /\ row.is_current
    /\ \E t \in subs : t.id # row.id /\ t.owner = row.owner /\ t.is_current

\* Subscription.objects.create(...): the rows after the INSERT; unchanged where
\* the database raises IntegrityError
CreateSubscription(owner, status, interval, now, limits, subs) ==
    LET row == [id |-> Cardinality(subs) + 1, owner |-> owner, plan |-> "basic",
                status |-> status, billing_interval |-> interval,
                current_period_start |-> now,
                current_period_end |-> {ComputePeriodEnd(now, interval)},
                cancel_at_period_end |-> FALSE, is_current |-> TRUE,
                meta_limits |-> {limits}]
    IN  IF UniqueCurrentViolation(row, subs) THEN subs ELSE subs \cup {row}

\* sub.save(update_fields=...): the row with the primary key of new is replaced
UpdateSubscription(new, subs) ==
    {IF t.id = new.id THEN new ELSE t : t \in subs}

IdleRequest == [pc |-> "idle", owner |-> "", sub |-> {}, now |-> 0]

\* No row, or the admin's row of an older release without a period end
SubInit ==
    /\ today = FirstDate
    /\ bookings = BaseBookings(FullPricing)
    /\ settingsRows = NoRows
    /\ invoices = {}
    /\ expenses = {}
    /\ payments = [p \in PaymentIds |-> NoPayment]
    /\ procs = [w \in Workers |-> IdleRequest]
    /\ lastOp = NoOp
    /\ \/ subscriptions = {}
       \/ subscriptions = {[id |-> 1, owner |-> "admin", plan |-> "basic",
                            status |-> "active", billing_interval |-> "1m",
                            current_period_start |-> 0, current_period_end |-> {},
                            cancel_at_period_end |-> FALSE, is_current |-> TRUE,
                            meta_limits |-> {}]}

\* CurrentSubscriptionView.get up to the decision: the current row is read and
\* its missing period end is stored
GetRead(w, user, now) ==
    LET owner == GetOwner(user)
        found == GetCurrentSubscription(owner, subscriptions)
        sub   == {IF s.current_period_end # {} THEN s
                  ELSE [s EXCEPT !.current_period_end =
                           {ComputePeriodEnd(s.current_period_start, s.billing_interval)}] :
                  s \in found}
    IN  /\ procs[w].pc = "idle"
        /\ subscriptions' = {IF t \in found THEN CHOOSE n \in sub : TRUE ELSE t :
                             t \in subscriptions}
        /\ procs' = [procs EXCEPT ![w] =
                        IF sub # {}
                        THEN [pc |-> "check", owner |-> owner, now |-> now,
                              sub |-> {[id |-> t.id, status |-> t.status,
                                        current_period_end |-> t.current_period_end] :
                                       t \in sub}]
                        ELSE IF \E t \in subscriptions : t.owner = owner THEN IdleRequest
                        ELSE [pc |-> "create", owner |-> owner, sub |-> {}, now |-> now]]
        /\ lastOp' = [op |-> "subscription", view |-> "get", ok |-> TRUE]
        /\ UNCHANGED <<today, bookings, settingsRows, invoices, expenses, payments>>

\* CurrentSubscriptionView.get, first access: the free month is created
GetCreate(w) ==
    LET subs == CreateSubscription(procs[w].owner, "active", "1m", procs[w].now,
                                   [k \in {"max_buildings"} |-> {1}], subscriptions)
    IN  /\ procs[w].pc = "create"
        /\ subscriptions' = subs
        /\ procs' = [procs EXCEPT ![w] = IdleRequest]
        /\ lastOp' = [op |-> "subscription", view |-> "create",
                      ok |-> subs # subscriptions]
        /\ UNCHANGED <<today, bookings, settingsRows, invoices, expenses, payments>>

\* CurrentSubscriptionView.get, the row read: it is shown, hidden, or marked
\* expired and no longer current (save with update_fields status, is_current)
GetCheck(w) ==
    LET expired == {s \in procs[w].sub :
                       /\ s.status = "active"
                       /\ \E end \in s.current_period_end : end <= procs[w].now}
    IN  /\ procs[w].pc = "check"
        /\ subscriptions' =
              {IF \E s \in expired : s.id = t.id
               THEN [t EXCEPT !.status = "expired", !.is_current = FALSE]
               ELSE t : t \in subscriptions}
        /\ procs' = [procs EXCEPT ![w] = IdleRequest]
        /\ lastOp' = [op |-> "subscription", view |-> "check", ok |-> expired = {}]
        /\ UNCHANGED <<today, bookings, settingsRows, invoices, expenses, payments>>

\* ChangePlanView.post and RazorpayVerifyPaymentView.post (view): the current
\* row, locked, starts a new period on the plan; ChangePlanView refuses a plan
\* whose max_buildings is below the buildings in use
ChangePlan(view, user, plan, interval, used_active, now) ==
    LET sub == GetCurrentSubscription(GetOwner(user), subscriptions)
        target_limit == IF "max_buildings" \in DOMAIN PlanLimits[plan]
                        THEN PlanLimits[plan]["max_buildings"] ELSE {}
        refused == /\ view = "change_plan"
                   /\ \E limit \in target_limit : used_active > limit
        done == Users[user].role # "pg_staff" /\ sub # {} /\ ~refused
    IN  /\ subscriptions' =
              IF ~done THEN subscriptions
              ELSE LET s == CHOOSE x \in sub : TRUE
                       chosen == IF interval # "" THEN interval
                                 ELSE IF view = "change_plan"
                                         /\ s.billing_interval \in {"1m", "3m", "12m"}
                                      THEN s.billing_interval ELSE "1m"
                   IN  UpdateSubscription(
                           [s EXCEPT !.plan = plan, !.billing_interval = chosen,
                                     !.status = "active", !.cancel_at_period_end = FALSE,
                                     !.current_period_start = now,
                                     !.current_period_end = {ComputePeriodEnd(now, chosen)},
                                     !.meta_limits = {}],
                           subscriptions)
        /\ lastOp' = [op |-> "subscription", view |-> view, ok |-> done]
        /\ UNCHANGED <<today, bookings, settingsRows, invoices, expenses, payments, procs>>

\* CancelSubscriptionView.post (cancel = TRUE) and ResumeSubscriptionView.post
CancelOrResume(user, cancel) ==
    LET sub == GetCurrentSubscription(GetOwner(user), subscriptions)
        done == Users[user].role # "pg_staff" /\ sub # {}
    IN  /\ subscriptions' =
              IF ~done THEN subscriptions
              ELSE LET s == CHOOSE x \in sub : TRUE
                   IN  UpdateSubscription(
                           [s EXCEPT !.cancel_at_period_end = cancel,
                                     !.status = IF ~cancel /\ @ \in {"canceled", "expired"}
                                                THEN "active" ELSE @],
                           subscriptions)
        /\ lastOp' = [op |-> "subscription",
                      view |-> IF cancel THEN "cancel" ELSE "resume", ok |-> done]
        /\ UNCHANGED <<today, bookings, settingsRows, invoices, expenses, payments, procs>>

\* accounts.views, email verified: the 14-day trial of a new pg_admin
RegisterTrial(user, now) ==
    /\ Users[user].role = "pg_admin"
    /\ ~ \E t \in subscriptions : t.owner = user
    /\ subscriptions' = CreateSubscription(user, "trialing", "14d", now,
                                           [k \in {"max_buildings"} |-> {1}], subscriptions)
    /\ lastOp' = [op |-> "subscription", view |-> "register", ok |-> TRUE]
    /\ UNCHANGED <<today, bookings, settingsRows, invoices, expenses, payments, procs>>

NextSub ==
    \/ \E w \in Workers, user \in {"admin", "staff"}, now \in {0, 29 * TicksPerDay} :
          GetRead(w, user, now)
    \/ \E w \in Workers : GetCreate(w)
    \/ \E w \in Workers : GetCheck(w)
    \/ \E view \in {"change_plan", "verify_payment"}, user \in {"admin", "staff"},
          plan \in DOMAIN PlanLimits, interval \in {"", "3m"},
          used_active \in {0, MaxAmount}, now \in {0, 29 * TicksPerDay} :
          ChangePlan(view, user, plan, interval, used_active, now)
    \/ \E user \in {"admin", "staff"}, cancel \in BOOLEAN : CancelOrResume(user, cancel)
    \/ \E user \in {"admin", "staff"}, now \in {0, 29 * TicksPerDay} :
          RegisterTrial(user, now)

SpecSub == SubInit /\ [][NextSub]_vars

\* C23: an owner never has two Subscription rows with is_current = true,
\* whatever the interleaving of first accesses, plan changes, payment
\* verifications, cancels, resumes and expiries
C23_OneCurrentPerOwner ==
    \A s \in subscriptions, t \in subscriptions :
        (s.owner = t.owner /\ s.is_current /\ t.is_current) => s.id = t.id

\* A first access lost the race: its INSERT was refused, the owner has a
\* current row
C23_Witness ==
    /\ lastOp.op = "subscription"
    /\ lastOp.view = "create"
    /\ ~lastOp.ok
    /\ \E s \in subscriptions : s.is_current

------------------------------------------------------------------------------
(* Further properties of payments, invoices and windows *)

\* C24: Payment.save on a linked payment is all or nothing: when the update of
\* an invoice raises (its booking is no longer confirmed, say), no payment row
\* is created or changed and no invoice's balance or status changes
C24_PaymentSaveAllOrNothing ==
    [][(lastOp'.op = "payment_save" /\ ~lastOp'.ok)
          => (payments' = payments /\ invoices' = invoices)]_vars

\* A payment on an invoice with a balance was refused, the booking being no
\* longer confirmed
C24_Witness ==
    /\ lastOp.op = "payment_save"
    /\ ~lastOp.ok
    /\ \E id \in DOMAIN bookings : bookings[id].status # "confirmed"
    /\ \E o \in invoices : o.balance_due > 0

\* C25 as claimed: no invoice ever owes more than its total, whatever payments
\* are created, edited and moved
C25_BalanceWithinTotal ==
    \A o \in invoices : o.balance_due <= o.total_amount

\* C26: an invoice with status paid owes nothing, whatever the triggers, open(),
\* apply_payment_amount, adjust_payment_delta, the overdue marking and the
\* voiding on cancellation did
C26_PaidOwesNothing ==
    \A o \in invoices : o.status = "paid" => o.balance_due = 0

\* An invoice was paid in full by apply_payment_amount or adjust_payment_delta
\* after the overdue marking had run on it
C26_Witness ==
    /\ lastOp.op \in {"apply", "adjust"}
    /\ lastOp.prior = "overdue"
    /\ lastOp.was > 0
    /\ lastOp.saved
    /\ \E o \in invoices : o.id = lastOp.id /\ o.status = "paid"

\* C27 as claimed: void is terminal: no step of open(), apply_payment_amount,
\* adjust_payment_delta, the overdue marking or the cancellation trigger
\* changes the status of an invoice that is void
C27_VoidIsTerminal ==
    [][\A o \in invoices : \A n \in invoices' :
          (o.id = n.id /\ o.status = "void") => n.status = "void"]_vars

\* C28 as claimed: two Payment.save calls in flight that move one payment from
\* invoice A to B and another from B to A never wait for each other's locks
\* (no cyclic wait, so no deadlock)
C28_CrossMovesNeverDeadlock ==
    \A w \in Workers, v \in Workers :
        (/\ w # v
         /\ procs[w].pc # "idle" /\ procs[v].pc # "idle"
         /\ ~procs[w].is_create /\ ~procs[v].is_create
         /\ procs[w].invoice # 0 /\ procs[v].invoice # 0
         /\ procs[w].invoice # procs[v].invoice
         /\ procs[w].old_invoice_id = procs[v].invoice
         /\ procs[v].old_invoice_id = procs[w].invoice)
        => ~ /\ \E lock \in Wanted(w) : lock \in procs[v].locks
             /\ \E lock \in Wanted(v) : lock \in procs[w].locks

------------------------------------------------------------------------------
(* SpecRun: one run of generate_monthly_invoices over two bookings, statement *)
(* by statement, while invoices are created through the API                   *)

\* Both bookings are confirmed and billed up to February; a month after PayDay
\* the sweep finds the windows of both starting today
RunInit ==
    /\ today = MonthAdd(PayDay, 1)
    /\ bookings = [id \in {1, 2} |->
                      IF id = 1 THEN BaseBookings(FullPricing)[1]
                      ELSE [BaseBookings(FullPricing)[1] EXCEPT !.start_date = PayDay]]
    /\ \E how \in {"sweep", "api"} :
          \E r \in {CreateFirstInvoiceOnConfirm(2, TRUE, "none", bookings, NoRows,
                                                SecondInvoice(FullPricing, how),
                                                AfterConfirm(FullPricing).expenses, PayDay)} :
             /\ invoices = r.invoices
             /\ expenses = r.expenses
    /\ settingsRows = NoRows
    /\ payments = [p \in PaymentIds |-> NoPayment]
    /\ procs = [pc |-> "idle", order |-> <<>>, bks |-> bookings, raised |-> FALSE]
    /\ subscriptions = {}
    /\ lastOp = NoOp

\* active_qs is evaluated: the rows of the active bookings, newest first
RunStart ==
    /\ procs.pc = "idle"
    /\ procs' = [pc |-> "check", bks |-> bookings, raised |-> FALSE,
                 order |-> DescendingIds({id \in DOMAIN bookings :
                                             SweepActive(bookings[id], today)})]
    /\ UNCHANGED <<today, bookings, settingsRows, invoices, expenses, payments, lastOp,
                   subscriptions>>

\* The loop body for the next booking up to the duplicate check; the task
\* returns when no booking is left
RunCheck ==
    /\ procs.pc = "check"
    /\ procs' = IF procs.order = <<>> THEN [procs EXCEPT !.pc = "done"]
                ELSE IF SweepEligible(Head(procs.order), procs.bks, settingsRows,
                                      invoices, today)
                THEN [procs EXCEPT !.pc = "save"]
                ELSE [procs EXCEPT !.order = Tail(@)]
    /\ UNCHANGED <<today, bookings, settingsRows, invoices, expenses, payments, lastOp,
                   subscriptions>>

\* inv.save() in its atomic block: an exception leaves the loop and the task
RunSave ==
    LET res == InvoiceSave(SweepInvoice(Head(procs.order), procs.bks, settingsRows,
                                        invoices, today),
                           TRUE, procs.bks, invoices, today)
    IN  /\ procs.pc = "save"
        /\ invoices' = res.invoices
        /\ procs' = IF res.ok THEN [procs EXCEPT !.pc = "check", !.order = Tail(@)]
                    ELSE [procs EXCEPT !.pc = "done", !.raised = TRUE]
        /\ UNCHANGED <<today, bookings, settingsRows, expenses, payments, lastOp,
                       subscriptions>>

NextRun ==
    \/ RunStart
    \/ RunCheck
    \/ RunSave
    \/ \E b \in DOMAIN bookings, due \in {today, MonthAdd(today, 1)}, amount \in {0, 2} :
          CreateInvoice(b, today, due, amount, 0, 0)

SpecRun == RunInit /\ [][NextRun]_vars

\* C29 as claimed: when a run of generate_monthly_invoices is over, every
\* booking that was eligible today has its invoice, also when inv.save() raised
\* for another booking
C29_RunReachesEveryBooking ==
    procs.pc = "done" =>
        \A id \in DOMAIN bookings :
            ~SweepEligible(id, procs.bks, settingsRows, invoices, today)

\* C30 as claimed: the window of a reference date ends where the window of the
\* same day a month later starts, in custom-day and in check-in mode
C30_WindowsContiguous ==
    lastOp.op = "window" =>
        MonthlyPeriodWindow(lastOp.settings, lastOp.ref, bookings[lastOp.booking]).end
            = MonthlyPeriodWindow(lastOp.settings, MonthAdd(lastOp.ref, 1),
                                  bookings[lastOp.booking]).start

====
